---- MODULE Spec2Model ----
(***************************************************************************)
(* Model of the mcp-wallet core: the wallet facade (wallet.rs), the        *)
(* encrypted file storage (storage/encrypted_file.rs), the credential      *)
(* manager (credential/manager.rs), the integration registry               *)
(* (integration/registry.rs) and the session manager (session.rs).         *)
(*                                                                         *)
(* One data directory is shared by the wallet instances in W.  Instance 1  *)
(* is the desktop application (tauri-app/src/main.rs), which drives the    *)
(* whole facade; instance 2 is the MCP server process                      *)
(* (mcp-server/src/bin/main.rs), which constructs a wallet over the same   *)
(* directory, unlocks it by session or password and decrypts credentials.  *)
(***************************************************************************)
EXTENDS Integers, FiniteSets, Sequences, TLC

\* ------------------------------------------------------------------ bounds
MaxSalt == 2        \* salts generate_salt() may hand out in one behaviour
MaxCreds == 1       \* credentials add_api_key may create in one behaviour
MaxTime == 1        \* last clock value (seconds since the epoch)
MaxParams == 2       \* parameters of an operation
MaxIntegs == 2      \* integrations add_from_content/add_from_url may create

W == {1, 2}
Owners == {1}
Passwords == {"a", "b"}
Secrets == {"s1"}
NewSecrets == {"s2"}
Slugs == {"x", "y"}
Durations == {0, 1}
CredIds == 1..MaxCreds
Documents == {1, 2}
Urls == {"u"}
Statuses == {"pending", "active", "error", "disabled"}

\* ------------------------------------------------------ crypto primitives
NoKey == <<"", 0>>

derive_key(password, salt) == <<password, salt>>

encrypt_string(plaintext, key) == [key |-> key, pt |-> plaintext]

decrypt_string(blob, key) == [ok |-> blob.key = key, pt |-> blob.pt]

hex_encode(key) == <<"hex", key[1], key[2]>>

hex_decode(h) == <<h[2], h[3]>>

\* ------------------------------------------------------------ disk layout
VerificationPlaintext == "mcp-wallet-verification"

NoBlob == [key |-> NoKey, pt |-> ""]

\* ParsedSpec: what OpenApiParser makes of a document (servers and the
\* normalized ids of its operations).
ParsedSpec(doc) ==
    IF doc = 1 THEN [servers |-> <<"https://one">>, operations |-> <<"a.get">>]
    ELSE [servers |-> <<>>, operations |-> <<"a.get", "b.create">>]

\* NamespaceTree::build: each normalized id with the index the tree holds for
\* it (a later insert at the same path replaces the earlier one).
NamespaceTree_build(operations) ==
    {<<operations[i], i>> : i \in {j \in DOMAIN operations :
         \A k \in DOMAIN operations : operations[k] = operations[j] => k <= j}}

\* A StoredIntegration (Integration metadata, operations, namespace); "" and 0
\* stand for None in its fields.  NoIntegration is the absent one (None of
\* Option<StoredIntegration>): it has no other field than present.
NoIntegration == [present |-> FALSE]

\* StoredIntegration::from_spec with Integration::from_spec, the new Uuid
\* being id and the clock reading t
from_spec(key, doc, id, t) ==
    LET spec == ParsedSpec(doc)
    IN  [present |-> TRUE, id |-> id, key |-> key, spec_url |-> "",
         server_url |-> IF spec.servers = <<>> THEN "" ELSE Head(spec.servers),
         status |-> "pending", credential_id |-> 0,
         operation_count |-> Len(spec.operations),
         last_synced_at |-> t, created_at |-> t, updated_at |-> t,
         operations |-> spec.operations,
         namespace |-> NamespaceTree_build(spec.operations)]

\* The payload of a storage entry, a byte string: the JSON of a
\* StoredCredential, the JSON of a StoredIntegration, or raw bytes.
NoStored ==
    [kind |-> "none", enc |-> NoBlob, used |-> FALSE, integ |-> NoIntegration,
     bytes |-> <<>>]

StoredCredential(enc, used) ==
    [kind |-> "credential", enc |-> enc, used |-> used, integ |-> NoIntegration,
     bytes |-> <<>>]

StoredIntegration(integ) ==
    [kind |-> "integration", enc |-> NoBlob, used |-> FALSE, integ |-> integ,
     bytes |-> <<>>]

RawBytes(bytes) ==
    [kind |-> "bytes", enc |-> NoBlob, used |-> FALSE, integ |-> NoIntegration,
     bytes |-> bytes]

\* String::from_utf8_lossy on a payload.  serde_json output is valid UTF-8 and
\* is kept; in raw bytes 255 is never valid and becomes U+FFFD, 65 is 'A'.
from_utf8_lossy(value) ==
    [value EXCEPT !.bytes = [i \in DOMAIN value.bytes |->
                                IF value.bytes[i] = 255 THEN 65533 ELSE value.bytes[i]]]

\* the UTF-8 encoding of one character
utf8(ch) == IF ch = 65533 THEN <<239, 191, 189>> ELSE <<ch>>

RECURSIVE utf8_all(_)
utf8_all(str) == IF str = <<>> THEN <<>> ELSE utf8(Head(str)) \o utf8_all(Tail(str))

\* String::into_bytes on a payload
into_bytes(value) == [value EXCEPT !.bytes = utf8_all(value.bytes)]

NoRegistry == [s \in Slugs |-> NoIntegration]

NoEntry == [present |-> FALSE, blob |-> [key |-> NoKey, pt |-> NoStored]]

CredKey(id) == <<"credential:", id, "">>

IntegKey(slug) == <<"integration:", 0, slug>>

EntryKeys == {CredKey(id) : id \in CredIds} \cup {IntegKey(s) : s \in Slugs}

EmptyEntries == [k \in EntryKeys |-> NoEntry]

Tokens == {"t1"}

NoSession == [exists |-> FALSE, token |-> "",
              encrypted_master_key |-> [key |-> "", pt |-> hex_encode(NoKey)],
              expires_at |-> 0]

VARIABLES
    saltFile,       \* the salt file: 0 when absent, else the salt
    verifyFile,     \* the verify file: [exists, blob]
    walletFile,     \* wallet.json: [exists, entries]
    sessionFile,    \* session.json: a Session record, or NoSession
    wstate,         \* Wallet.state of each instance
    facadeKey,      \* Wallet.master_key
    storageKey,     \* EncryptedFileStorage.master_key
    credKey,        \* CredentialManager.master_key
    cache,          \* StorageCache.entries
    dirty,          \* StorageCache.dirty
    registry,       \* IntegrationRegistry.integrations: per slug the cached
                    \* StoredIntegration, or NoIntegration
    now,            \* the system clock
    nextSalt,       \* the next salt generate_salt() returns
    nextCred,       \* the next credential id (Uuid::new_v4)
    nextInteg,      \* the next integration id (Uuid::new_v4)
    last,           \* the last call and what it returned
    truth,          \* per credential id: the secret it was added with, "" when
                    \* never added, or updated or deleted since
    password,       \* the password of the last successful initialize or
                    \* change_password ("" before the first)
    lockedSince,    \* per instance: lock() returned and no unlock succeeded since
    noSessionSince, \* "no", or since the last successful create_session lock()
                    \* has returned: "cleared" when a lock() found a session file
                    \* and removed it, "absent" when none found one
    initialized,    \* RequestHandler.initialized of each transport
    settings,       \* SettingsManager.settings of each instance
    settingsFile,   \* settings.json: [exists, contents]
    tasks,          \* the calls in flight: per task the call, the point it
                    \* has reached and what it holds
    tmpFile,        \* wallet.tmp: [exists, complete]; the contents written
                    \* to it are the entries of the cache, see SaveWrite
    partial         \* wallet.json holds a file whose write has not finished

disk == <<saltFile, verifyFile, walletFile, sessionFile>>
keys == <<facadeKey, storageKey, credKey>>
store == <<cache, dirty, registry>>
counters == <<nextSalt, nextCred, nextInteg>>
ghost == <<truth, password, lockedSince, noSessionSince>>
server == <<initialized>>
config == <<settings, settingsFile>>
inflight == <<tasks, tmpFile, partial>>
vars == <<disk, wstate, keys, store, now, counters, last, ghost, server, config, inflight>>

\* ------------------------------------------------------------ settings
\* (wallet-core/src/settings.rs).  "" stands for None.
OtelSettings_default ==
    [enabled |-> FALSE, endpoint |-> "", service_name |-> "", auth_header |-> "",
     export_traces |-> FALSE, export_metrics |-> FALSE]

\* #[derive(Default)] of Settings: every field the default of its type
Settings_default ==
    [version |-> 0, auto_lock_timeout_minutes |-> 0, otel |-> OtelSettings_default]

\* Settings::new
Settings_new ==
    [version |-> 1, auto_lock_timeout_minutes |-> 15,
     otel |-> [enabled |-> FALSE, endpoint |-> "",
               service_name |-> "symbia-mcp-wallet", auth_header |-> "",
               export_traces |-> TRUE, export_metrics |-> TRUE]]

\* serde_json::to_string_pretty of Settings (rename_all = "camelCase")
to_string_pretty(s) ==
    [version |-> s.version,
     autoLockTimeoutMinutes |-> s.auto_lock_timeout_minutes,
     otel |-> [enabled |-> s.otel.enabled, endpoint |-> s.otel.endpoint,
               serviceName |-> s.otel.service_name,
               authHeader |-> s.otel.auth_header,
               exportTraces |-> s.otel.export_traces,
               exportMetrics |-> s.otel.export_metrics]]

\* serde_json::from_str::<Settings>
from_str(contents) ==
    [version |-> contents.version,
     auto_lock_timeout_minutes |-> contents.autoLockTimeoutMinutes,
     otel |-> [enabled |-> contents.otel.enabled,
               endpoint |-> contents.otel.endpoint,
               service_name |-> contents.otel.serviceName,
               auth_header |-> contents.otel.authHeader,
               export_traces |-> contents.otel.exportTraces,
               export_metrics |-> contents.otel.exportMetrics]]

NoSettingsFile == [exists |-> FALSE, contents |-> to_string_pretty(Settings_default)]

\* SettingsManager::load_from_file, as SettingsManager::new takes it
load_from_file(file) ==
    IF ~file.exists THEN Settings_new ELSE from_str(file.contents)

\* SettingsManager::save: the contents written and renamed into place
save_settings(s) == [exists |-> TRUE, contents |-> to_string_pretty(s)]

\* The values the settings calls below are made with
Minutes == {15, 30}

OtelValues ==
    {[Settings_new.otel EXCEPT !.enabled = e, !.endpoint = u] :
         e \in BOOLEAN, u \in {"http://localhost:4317"}}

SettingsValues ==
    {[Settings_new EXCEPT !.auto_lock_timeout_minutes = m, !.otel = o] :
         m \in Minutes, o \in {Settings_new.otel, OtelSettings_default}}

\* ------------------------------------------------------------- storage
\* EncryptedFileStorage::is_initialized
is_initialized == saltFile # 0 /\ verifyFile.exists

\* EncryptedFileStorage::save_verification, with the key k installed
save_verification(k) ==
    [exists |-> TRUE, blob |-> encrypt_string(VerificationPlaintext, k)]

\* EncryptedFileStorage::verify_key, with the key k installed
verify_key(k) ==
    IF ~verifyFile.exists THEN FALSE
    ELSE LET d == decrypt_string(verifyFile.blob, k)
         IN  d.ok /\ d.pt = VerificationPlaintext

\* EncryptedFileStorage::load: the cache entries after loading wallet.json
load(entries) == IF walletFile.exists THEN walletFile.entries ELSE entries

\* the dirty flag after load
load_dirty(d) == IF walletFile.exists THEN FALSE ELSE d

\* EncryptedFileStorage::save: wallet.json after saving a cache
save(entries, isDirty) ==
    IF ~isDirty THEN walletFile ELSE [exists |-> TRUE, entries |-> entries]

\* EncryptedFileStorage::retrieve on a cache with the key k installed
retrieve(entries, k, ek) ==
    IF k = NoKey THEN [res |-> "WalletLocked", pt |-> NoStored]
    ELSE IF ~entries[ek].present THEN [res |-> "None", pt |-> NoStored]
    ELSE LET d == decrypt_string(entries[ek].blob, k)
         IN  IF d.ok THEN [res |-> "Some", pt |-> into_bytes(d.pt)]
             ELSE [res |-> "DecryptionError", pt |-> NoStored]

\* EncryptedFileStorage::store: the cache entries after the insert
store_entry(entries, k, ek, stored) ==
    [entries EXCEPT ![ek] =
        [present |-> TRUE, blob |-> encrypt_string(from_utf8_lossy(stored), k)]]

\* ------------------------------------------------------------- sessions
\* Session::is_expired
is_expired(session, t) == t > session.expires_at

\* Session::create
Session_create(master_key, token, duration, t) ==
    [exists |-> TRUE, token |-> token,
     encrypted_master_key |-> encrypt_string(hex_encode(master_key), token),
     expires_at |-> t + duration]

\* Session::get_master_key at clock value t
get_master_key(session, token, t) ==
    IF t > session.expires_at THEN [res |-> "SessionExpired", key |-> NoKey]
    ELSE IF token # session.token THEN [res |-> "InvalidSession", key |-> NoKey]
    ELSE LET d == decrypt_string(session.encrypted_master_key, token)
         IN  IF d.ok THEN [res |-> "Ok", key |-> hex_decode(d.pt)]
             ELSE [res |-> "DecryptionError", key |-> NoKey]

\* clear_session leaving the file where it is
clear_session_kept(file) == file

\* SessionManager::clear_session: the session file afterwards
clear_session(file) == NoSession

\* SessionManager::load_session at clock value t: what it returns
load_session(file, t) ==
    IF ~file.exists THEN "None"
    ELSE IF is_expired(file, t) THEN "None"
    ELSE "Some"

\* SessionManager::load_session at clock value t: the session file afterwards
load_session_file(file, t) ==
    IF file.exists /\ is_expired(file, t) THEN clear_session(file) ELSE file

\* ----------------------------------------------------------- credentials
\* CredentialManager::get_decrypted: what it returns in instance w
get_decrypted(w, id) ==
    IF credKey[w] = NoKey THEN [res |-> "WalletLocked", val |-> ""]
    ELSE LET r == retrieve(cache[w], storageKey[w], CredKey(id))
         IN  IF r.res = "WalletLocked" THEN [res |-> "WalletLocked", val |-> ""]
             ELSE IF r.res = "DecryptionError" THEN [res |-> "DecryptionError", val |-> ""]
             ELSE IF r.res = "None" THEN [res |-> "CredentialNotFound", val |-> ""]
             ELSE LET d == decrypt_string(r.pt.enc, credKey[w])
                  IN  IF d.ok THEN [res |-> "Ok", val |-> d.pt]
                      ELSE [res |-> "DecryptionError", val |-> ""]

\* The transports of the MCP server, each with its RequestHandler
Transports == {"stdio", "http"}

\* ------------------------------------------------------- tool executor
\* HttpMethod
HttpMethods == {"GET", "POST", "PUT", "PATCH", "DELETE", "HEAD", "OPTIONS", "TRACE"}

\* ParameterLocation
Locations == {"path", "query", "header", "cookie"}

\* Names of parameters and of arguments
ParamNames == {"id", "q"}

ArgNames == ParamNames \cup {"data"}

\* JSON values of arguments: a string and a number
Values == {[type |-> "string", text |-> "v"], [type |-> "number", text |-> "5"]}

\* OperationParameter: name and location
Parameters == [name : ParamNames, location : Locations]

\* ApiOperation.parameters
ParameterLists == UNION {[1..n -> Parameters] : n \in 0..MaxParams}

\* ApiOperation.path, in pieces: text and {name} placeholders
Paths == {<<"/a/", "{id}">>, <<"/b">>}

\* the text "{name}" that url.replace looks for
placeholder(name) == IF name = "id" THEN "{id}" ELSE IF name = "q" THEN "{q}" ELSE "{data}"

\* ApiOperation: what execute_operation reads of it
Operations == [method : HttpMethods, path : Paths, parameters : ParameterLists]

NoOperation == [method |-> "GET", path |-> <<>>, parameters |-> <<>>]

\* Integration.server_url in pieces, the trailing '/' apart
pieces(server_url) ==
    IF server_url = "" THEN <<>>
    ELSE IF server_url = "https://one/" THEN <<"https://one", "/">>
    ELSE <<server_url>>

\* Base URLs
Bases == {"https://one", "https://one/"}

\* serde_json::Map of arguments: name/value pairs, one per name
ArgMaps == {m \in SUBSET (ArgNames \X Values) :
               \A p \in m, r \in m : p[1] = r[1] => p = r}

\* Option<Value> arguments: absent, an object, or another JSON value
Arguments == {[kind |-> "absent", map |-> {}], [kind |-> "other", map |-> {}]}
                 \cup {[kind |-> "object", map |-> m] : m \in ArgMaps}

\* arguments.unwrap_or(empty object)
args_map(arguments) == IF arguments.kind = "object" THEN arguments.map ELSE {}

\* Map::get(name) is Some
has_arg(map, name) == \E p \in map : p[1] = name

\* the text put in the URL for a value
value_str(map, name) == (CHOOSE p \in map : p[1] = name)[2].text

\* str::trim_end_matches('/')
RECURSIVE trim_end(_)
trim_end(url) ==
    IF url # <<>> /\ url[Len(url)] = "/" THEN trim_end(SubSeq(url, 1, Len(url) - 1))
    ELSE url

\* str::replace
replace(url, from, to) == [i \in DOMAIN url |-> IF url[i] = from THEN to ELSE url[i]]

\* the loop over the path parameters
RECURSIVE substitute(_, _, _)
substitute(url, parameters, map) ==
    IF parameters = <<>> THEN url
    ELSE LET param == Head(parameters)
         IN  substitute(
                 IF param.location = "path" /\ has_arg(map, param.name)
                 THEN replace(url, placeholder(param.name), value_str(map, param.name))
                 ELSE url,
                 Tail(parameters), map)

\* the loop over the query parameters
RECURSIVE query_params(_, _)
query_params(parameters, map) ==
    IF parameters = <<>> THEN <<>>
    ELSE LET param == Head(parameters)
         IN  (IF param.location = "query" /\ has_arg(map, param.name)
              THEN <<<<param.name, value_str(map, param.name)>>>>
              ELSE <<>>) \o query_params(Tail(parameters), map)

\* a body filter that forgets the header parameters
body_excluded_no_header(location) == location \in {"path", "query"}

\* the locations whose parameter names are kept out of the body
body_excluded(location) == location \in {"path", "query", "header"}

\* path_query_params
path_query_params(parameters) ==
    {parameters[i].name : i \in {j \in DOMAIN parameters :
                                     body_excluded(parameters[j].location)}}

\* the body collected from the arguments
body_of(parameters, map) == {p \in map : p[1] \notin path_query_params(parameters)}

NoRequest ==
    [sent |-> FALSE, method |-> "", url |-> <<>>, query |-> <<>>, bearer |-> "",
     has_body |-> FALSE, body |-> {}]

\* The HTTP request execute_operation builds and sends; none when the
\* arguments are not an object.
build_request(base_url, operation, arguments, api_key) ==
    IF arguments.kind = "other" THEN NoRequest
    ELSE LET map == args_map(arguments)
             with_body == operation.method \in {"POST", "PUT", "PATCH"}
             body == body_of(operation.parameters, map)
         IN  [sent |-> TRUE,
              method |-> operation.method,
              url |-> substitute(trim_end(pieces(base_url)) \o operation.path,
                                 operation.parameters, map),
              query |-> query_params(operation.parameters, map),
              bearer |-> api_key,
              has_body |-> with_body /\ body # {},
              body |-> IF with_body THEN body ELSE {}]

\* What a call of execute_operation is given
NoExec == [base_url |-> "", operation |-> NoOperation,
           arguments |-> [kind |-> "absent", map |-> {}]]

\* ------------------------------------------------------- MCP protocol
\* Methods of incoming messages; "" is a message without a method
Methods == {"initialize", "initialized", "ping", "tools/list", "tools/call",
            "notifications/initialized", "notifications/cancelled", "resources/list"}

\* The id member of a JSON message: absent, null, or a value
WireIds == {"absent", "null", "7"}

\* McpMessage.id = None
NoId == ""

\* serde: an absent or null id is None
deserialize_id(id) == IF id \in {"absent", "null"} THEN NoId ELSE id

\* Tool names, in pieces: text and '_'
ToolNames == {<<"x">>, <<"x", "_", "a", "_", "get">>, <<"x", "_", "zz">>,
              <<"y", "_", "a", "_", "get">>}

\* arguments of a tool call
ToolArguments == {[kind |-> "absent", map |-> {}], [kind |-> "other", map |-> {}],
                  [kind |-> "object",
                   map |-> {<<"id", [type |-> "string", text |-> "v"]>>}]}

\* params: missing, not of the type the method wants, or well formed
NoParams == [shape |-> "missing", name |-> <<>>, arguments |-> [kind |-> "absent", map |-> {}]]

WrongParams == [NoParams EXCEPT !.shape = "malformed"]

ToolCallParams == {[shape |-> "ok", name |-> n, arguments |-> a] :
                      n \in ToolNames, a \in ToolArguments}

\* A line that is not a JSON message
Garbage == [json |-> FALSE, method |-> "", id |-> NoId, params |-> NoParams,
            has_result |-> FALSE]

\* McpMessage, as deserialized
McpMessage(method, id, params, has_result) ==
    [json |-> TRUE, method |-> method, id |-> deserialize_id(id), params |-> params,
     has_result |-> has_result]

\* The messages a client sends
Messages ==
    {McpMessage(m, id, NoParams, FALSE) :
         m \in Methods \ {"initialize", "tools/call"}, id \in WireIds}
    \cup {McpMessage("initialize", "7", ps, FALSE) :
              ps \in {NoParams, WrongParams, [NoParams EXCEPT !.shape = "ok"]}}
    \cup {McpMessage("initialize", id, [NoParams EXCEPT !.shape = "ok"], FALSE) :
              id \in WireIds}
    \cup {McpMessage("tools/call", "7", ps, FALSE) :
              ps \in {NoParams, WrongParams} \cup ToolCallParams}
    \cup {McpMessage("tools/call", id, NoParams, FALSE) : id \in WireIds}
    \cup {McpMessage("", id, NoParams, r) : id \in WireIds, r \in BOOLEAN}

\* McpMessage::is_request
is_request(message) == message.method # "" /\ message.id # NoId

\* McpMessage::is_notification
is_notification(message) == message.method # "" /\ message.id = NoId

\* McpMessage::is_response
is_response(message) == message.method = "" /\ message.has_result

NoResult == [kind |-> "none", content |-> "", isError |-> "absent"]

\* a result that is not a tool result
Result(kind) == [kind |-> kind, content |-> "", isError |-> "absent"]

\* ToolCallResult::text
ToolCallResult_text == [kind |-> "tool", content |-> "text", isError |-> "absent"]

\* ToolCallResult::error
ToolCallResult_error == [kind |-> "tool", content |-> "text", isError |-> "true"]

\* McpMessage::response
response(id, result) ==
    [id |-> id, has_result |-> TRUE, result |-> result, has_error |-> FALSE, code |-> 0]

\* an error response that loses the id
error_response_no_id(id, code) ==
    [id |-> NoId, has_result |-> FALSE, result |-> NoResult, has_error |-> TRUE,
     code |-> code]

\* McpMessage::error_response
error_response(id, code) ==
    [id |-> id, has_result |-> FALSE, result |-> NoResult, has_error |-> TRUE,
     code |-> code]

\* a failed execution answered with a protocol error
execute_failed_as_error(id) == error_response(id, -32603)

\* handle_tools_call on Err(e) of the executor: a result with isError
execute_failed(id) == response(id, ToolCallResult_error)

\* the operation id as the namespace path looked up
dotted(operation_id) ==
    IF operation_id = "a.get" THEN <<"a", ".", "get">>
    ELSE IF operation_id = "b.create" THEN <<"b", ".", "create">>
    ELSE <<operation_id>>

\* ApiOperation of an operation id of the documents
ApiOperation(operation_id) ==
    IF operation_id = "a.get"
    THEN [method |-> "GET", path |-> <<"/a/", "{id}">>,
          parameters |-> <<[name |-> "id", location |-> "path"]>>]
    ELSE [method |-> "POST", path |-> <<"/b">>,
          parameters |-> <<[name |-> "q", location |-> "query"]>>]

\* splitn(2, '_'): the index of the first '_', 0 when there is none
first_underscore(tool_name) ==
    IF \E i \in DOMAIN tool_name : tool_name[i] = "_"
    THEN CHOOSE i \in DOMAIN tool_name :
             tool_name[i] = "_" /\ \A j \in 1..(i - 1) : tool_name[j] # "_"
    ELSE 0

\* ToolExecutor::parse_tool_name
parse_tool_name(tool_name) ==
    LET i == first_underscore(tool_name)
    IN  IF i = 0 THEN [ok |-> FALSE, integration_key |-> <<>>, operation_path |-> <<>>]
        ELSE [ok |-> TRUE,
              integration_key |-> SubSeq(tool_name, 1, i - 1),
              operation_path |-> replace(SubSeq(tool_name, i + 1, Len(tool_name)), "_", ".")]

\* HTTP outcomes of a sent request
HttpOutcomes == {"failed", "2xx", "4xx"}

\* the outcomes to consider for a message: only a tool call sends a request
outcomes(message) ==
    IF message.method = "tools/call" /\ message.params.shape = "ok" THEN HttpOutcomes
    ELSE {"2xx"}

NoExecution(res) == [res |-> res, credential_id |-> 0, request |-> NoRequest]

\* ToolExecutor::execute in the server of wallet w: the outcome, the
\* credential get_decrypted marked as used, and the request sent
execute(w, tool_name, arguments, http) ==
    LET parsed == parse_tool_name(tool_name)
        found == {slug \in Slugs : <<slug>> = parsed.integration_key /\ registry[w][slug].present}
    IN
    IF ~parsed.ok THEN NoExecution("OperationNotFound")
    ELSE IF wstate[w] # "Unlocked" THEN NoExecution("WalletLocked")
    ELSE IF found = {} THEN NoExecution("IntegrationNotFound")
    ELSE LET stored == registry[w][CHOOSE slug \in found : TRUE]
             refs == {ref \in stored.namespace : dotted(ref[1]) = parsed.operation_path}
         IN
         IF refs = {} THEN NoExecution("OperationNotFound")
         ELSE IF stored.credential_id = 0 THEN NoExecution("CredentialNotFound")
         ELSE LET got == get_decrypted(w, stored.credential_id)
                  operation == ApiOperation(stored.operations[(CHOOSE ref \in refs : TRUE)[2]])
                  request == build_request(stored.server_url, operation, arguments, got.val)
              IN
              IF got.res # "Ok" THEN NoExecution(got.res)
              ELSE [res |-> IF ~request.sent THEN "ParseError"
                            ELSE IF http = "failed" THEN "StorageError"
                            ELSE IF http = "2xx" THEN "Ok"
                            ELSE "HttpStatus",
                    credential_id |-> stored.credential_id,
                    request |-> request]

\* What handle returns: the response if any, the initialized flag, and what
\* execute did
Handled(reply, flag, execution) ==
    [reply |-> reply, initialized |-> flag, execution |-> execution]

\* RequestHandler::handle with its handle_initialize, handle_ping,
\* handle_tools_list and handle_tools_call
handle(w, flag, message, http) ==
    LET id == message.id
        params == message.params
        none == NoExecution("")
    IN
    IF ~is_request(message) THEN Handled(<<>>, flag, none)
    ELSE IF message.method = "initialize"
    THEN IF params.shape # "ok" THEN Handled(<<error_response(id, -32602)>>, flag, none)
         ELSE Handled(<<response(id, Result("initialize"))>>, TRUE, none)
    ELSE IF message.method = "initialized" THEN Handled(<<>>, flag, none)
    ELSE IF message.method = "ping" THEN Handled(<<response(id, Result("empty"))>>, flag, none)
    ELSE IF message.method = "tools/list"
    THEN IF wstate[w] # "Unlocked" THEN Handled(<<error_response(id, -32603)>>, flag, none)
         ELSE Handled(<<response(id, Result("tools"))>>, flag, none)
    ELSE IF message.method = "tools/call"
    THEN IF params.shape # "ok" THEN Handled(<<error_response(id, -32602)>>, flag, none)
         ELSE LET execution == execute(w, params.name, params.arguments, http)
              IN  IF execution.res = "Ok"
                  THEN Handled(<<response(id, ToolCallResult_text)>>, flag, execution)
                  ELSE IF execution.res = "HttpStatus"
                  THEN Handled(<<response(id, ToolCallResult_error)>>, flag, execution)
                  ELSE Handled(<<execute_failed(id)>>, flag, execution)
    ELSE Handled(<<error_response(id, -32601)>>, flag, none)

\* ------------------------------------------------- operation namespaces
\* (openapi-parser: operations.rs, namespace.rs).  A string is the sequence of
\* its characters.
MaxIdLen == 2       \* characters of an operationId
MaxOps == 2         \* operations of a parsed spec

IdChars == {"a", "A", "_"}

OperationIds == UNION {[1..n -> IdChars] : n \in 0..MaxIdLen}

is_uppercase(c) == c = "A"

is_lowercase(c) == c = "a"

to_lowercase(c) == IF c = "A" THEN "a" ELSE c

\* The loop of normalize_operation_id over the characters from position i on;
\* prev is prev_was_lowercase.
RECURSIVE normalize_from(_, _, _)
normalize_from(operation_id, i, prev) ==
    IF i > Len(operation_id) THEN <<>>
    ELSE LET c == operation_id[i] IN
         IF c = "_" \/ c = "-"
         THEN <<".">> \o normalize_from(operation_id, i + 1, FALSE)
         ELSE IF is_uppercase(c) /\ prev
         THEN <<".", to_lowercase(c)>> \o normalize_from(operation_id, i + 1, TRUE)
         ELSE <<to_lowercase(c)>>
                  \o normalize_from(operation_id, i + 1, is_lowercase(c))

normalize_operation_id(operation_id) == normalize_from(operation_id, 1, FALSE)

\* An ApiOperation: the id the document gives it and the id it is filed under.
convert_operation(operation_id) ==
    [operation_id |-> operation_id,
     normalized_id |-> normalize_operation_id(operation_id)]

ApiOperations == {convert_operation(operation_id) : operation_id \in OperationIds}

OperationLists == UNION {[1..n -> ApiOperations] : n \in 0..MaxOps}

\* str::split('.'): the pieces between the dots, empty pieces included.
RECURSIVE split(_)
split(path) ==
    IF \A i \in DOMAIN path : path[i] # "."
    THEN <<path>>
    ELSE LET d == CHOOSE i \in DOMAIN path :
                      path[i] = "." /\ \A j \in 1..(i - 1) : path[j] # "."
         IN <<SubSeq(path, 1, d - 1)>> \o split(SubSeq(path, d + 1, Len(path)))

\* A NamespaceTree is the set of its nodes that hold an operation, each with the
\* names on the way from the root and its OperationRef; the nodes on the way
\* hold none.
EmptyTree == {}

OperationRef(operation, index) ==
    [normalized_id |-> operation.normalized_id, index |-> index]

\* insert / insert_parts: the node at the end of the path gets the operation,
\* whatever it held.
insert(tree, path, operation) ==
    {n \in tree : n.parts # split(path)}
        \cup {[parts |-> split(path), operation |-> operation]}

\* NamespaceTree::build: the operations inserted in order, each with its index
\* (counted from 1 here).
RECURSIVE build_from(_, _, _)
build_from(tree, operations, i) ==
    IF i > Len(operations) THEN tree
    ELSE build_from(insert(tree, operations[i].normalized_id,
                           OperationRef(operations[i], i)),
                    operations, i + 1)

build(operations) == build_from(EmptyTree, operations, 1)

NoOperationRef == [normalized_id |-> <<>>, index |-> 0]

\* lookup / lookup_parts: the operation of the node at the path; NoOperationRef
\* is None.
lookup(tree, path) ==
    IF \E n \in tree : n.parts = split(path)
    THEN (CHOOSE n \in tree : n.parts = split(path)).operation
    ELSE NoOperationRef

\* The prefix collect_paths has when it reaches the node at parts: a name is
\* joined with a dot unless the prefix so far is empty.
RECURSIVE child_prefix(_, _)
child_prefix(prefix, parts) ==
    IF parts = <<>> THEN prefix
    ELSE child_prefix(IF prefix = <<>> THEN Head(parts)
                      ELSE prefix \o <<".">> \o Head(parts),
                      Tail(parts))

\* paths / collect_paths: the prefix of every node that holds an operation (in
\* the order the hash maps give, which no claim depends on).
paths(tree) == {child_prefix(<<>>, n.parts) : n \in tree}

NoNamespace == [operations |-> <<>>, built |-> FALSE, tree |-> EmptyTree,
                paths |-> {}]

\* ----------------------------------------------------------- the facade
\* What a call reports: the operation, the instance, the result, the wallet
\* state the call found, and the arguments the properties below refer to.
Call(op, w, res) ==
    [op |-> op, w |-> w, res |-> res, from |-> wstate[w], id |-> 0, val |-> "",
     pw |-> "", sess |-> "", pre |-> "", doc |-> 0, key |-> <<"", 0, "">>,
     bytes |-> <<>>, found |-> {}, exec |-> NoExec, request |-> NoRequest,
     msg |-> Garbage, reply |-> <<>>, ns |-> NoNamespace]

\* The session file as a call finds it.
SessionSeen == load_session_file(sessionFile, now)

SessionStatus ==
    IF ~sessionFile.exists THEN "none"
    ELSE IF is_expired(sessionFile, now) THEN "expired" ELSE "valid"

\* Before any call
Start ==
    [op |-> "start", w |-> 1, res |-> "Ok", from |-> "NotInitialized",
     id |-> 0, val |-> "", pw |-> "", sess |-> "", pre |-> "", doc |-> 0,
     key |-> <<"", 0, "">>, bytes |-> <<>>, found |-> {}, exec |-> NoExec,
     request |-> NoRequest, msg |-> Garbage, reply |-> <<>>, ns |-> NoNamespace]

\* The calls that run at the same time on one wallet object (commands that
\* hold the wallet's read lock, tool calls of the server)
Tasks == {1, 2}

\* A task that runs no call.  A task that runs one holds, besides these, the
\* arguments and the local values of the call.
Idle == [op |-> "none", pc |-> "idle", w |-> 1]

\* wallet.tmp absent
NoTmpFile == [exists |-> FALSE, complete |-> FALSE]

\* An empty data directory and no wallet object used yet
InitWallet ==
    /\ saltFile = 0
    /\ verifyFile = [exists |-> FALSE, blob |-> NoBlob]
    /\ walletFile = [exists |-> FALSE, entries |-> EmptyEntries]
    /\ sessionFile = NoSession
    /\ wstate = [w \in W |-> "NotInitialized"]
    /\ facadeKey = [w \in W |-> NoKey]
    /\ storageKey = [w \in W |-> NoKey]
    /\ credKey = [w \in W |-> NoKey]
    /\ cache = [w \in W |-> EmptyEntries]
    /\ dirty = [w \in W |-> FALSE]
    /\ registry = [w \in W |-> NoRegistry]
    /\ now = 0
    /\ nextSalt = 1
    /\ nextCred = 1
    /\ nextInteg = 1
    /\ truth = [id \in CredIds |-> ""]
    /\ password = ""
    /\ lockedSince = [w \in W |-> FALSE]
    /\ noSessionSince = "no"
    /\ initialized = [t \in Transports |-> FALSE]
    /\ settingsFile = NoSettingsFile
    /\ settings = [w \in W |-> load_from_file(settingsFile)]
    /\ tasks = [t \in Tasks |-> Idle]
    /\ tmpFile = NoTmpFile
    /\ partial = FALSE

Init == InitWallet /\ last = Start

\* Wallet::with_storage: a new wallet object over the data directory (a new
\* process, or the same process started again)
NewInstance(w) ==
    /\ wstate' = [wstate EXCEPT ![w] =
                    IF is_initialized THEN "Locked" ELSE "NotInitialized"]
    /\ facadeKey' = [facadeKey EXCEPT ![w] = NoKey]
    /\ storageKey' = [storageKey EXCEPT ![w] = NoKey]
    /\ credKey' = [credKey EXCEPT ![w] = NoKey]
    /\ cache' = [cache EXCEPT ![w] = EmptyEntries]
    /\ dirty' = [dirty EXCEPT ![w] = FALSE]
    /\ registry' = [registry EXCEPT ![w] = NoRegistry]
    /\ lockedSince' = [lockedSince EXCEPT ![w] = FALSE]
    /\ last' = [Call("new", w, "Ok") EXCEPT
                  !.pre = IF last.op = "create_session" /\ last.res = "Ok" /\ last.w # w
                          THEN "session_created" ELSE ""]
    /\ settings' = [settings EXCEPT ![w] = load_from_file(settingsFile)]
    /\ UNCHANGED <<disk, now, server, settingsFile, inflight, counters, truth,
                   password, noSessionSince>>

\* Wallet::initialize
Initialize(w, pw) ==
    IF wstate[w] # "NotInitialized"
    THEN /\ last' = Call("initialize", w, "StorageError")
         /\ UNCHANGED <<disk, wstate, keys, store, now, server, config, inflight, counters, ghost>>
    ELSE /\ nextSalt <= MaxSalt
         /\ LET master_key == derive_key(pw, nextSalt)
            IN  /\ saltFile' = nextSalt
                /\ storageKey' = [storageKey EXCEPT ![w] = master_key]
                /\ verifyFile' = save_verification(master_key)
                /\ credKey' = [credKey EXCEPT ![w] = master_key]
                /\ facadeKey' = [facadeKey EXCEPT ![w] = master_key]
         /\ nextSalt' = nextSalt + 1
         /\ wstate' = [wstate EXCEPT ![w] = "Unlocked"]
         /\ password' = pw
         /\ lockedSince' = [lockedSince EXCEPT ![w] = FALSE]
         /\ last' = Call("initialize", w, "Ok")
         /\ UNCHANGED <<walletFile, sessionFile, store, now, server, config, inflight, nextCred, nextInteg,
                        truth, noSessionSince>>

\* The common tail of unlock and unlock_with_session once the key verified:
\* storage.load(), the key into the credential manager and the facade,
\* integrations.load(), and the transition.  integrations.load() stops at the
\* first entry that does not decrypt, having cached those it met before it.
FinishUnlock(w, master_key, call) ==
    LET entries == load(cache[w])
        stored == {s \in Slugs : entries[IntegKey(s)].present}
        good == {s \in stored : retrieve(entries, master_key, IntegKey(s)).res = "Some"}
        inserted(met) == [s \in Slugs |->
                            IF s \in met
                            THEN retrieve(entries, master_key, IntegKey(s)).pt.integ
                            ELSE registry[w][s]]
    IN  /\ storageKey' = [storageKey EXCEPT ![w] = master_key]
        /\ cache' = [cache EXCEPT ![w] = entries]
        /\ dirty' = [dirty EXCEPT ![w] = load_dirty(dirty[w])]
        /\ credKey' = [credKey EXCEPT ![w] = master_key]
        /\ facadeKey' = [facadeKey EXCEPT ![w] = master_key]
        /\ IF good = stored
           THEN /\ registry' = [registry EXCEPT ![w] = inserted(good)]
                /\ wstate' = [wstate EXCEPT ![w] = "Unlocked"]
                /\ lockedSince' = [lockedSince EXCEPT ![w] = FALSE]
                /\ last' = [call EXCEPT !.res = "Ok"]
           ELSE /\ \E met \in SUBSET good :
                     registry' = [registry EXCEPT ![w] = inserted(met)]
                /\ last' = [call EXCEPT !.res = "DecryptionError"]
                /\ UNCHANGED <<wstate, lockedSince>>

\* Wallet::unlock
Unlock(w, pw) ==
    LET call == [Call("unlock", w, "") EXCEPT !.pw = pw,
                    !.pre = IF last.op = "lock" /\ last.w = w
                               /\ last.pre = "password_changed"
                            THEN "password_changed" ELSE ""]
    IN
    IF wstate[w] = "NotInitialized"
    THEN /\ last' = [call EXCEPT !.res = "WalletNotInitialized"]
         /\ UNCHANGED <<disk, wstate, keys, store, now, server, config, inflight, counters, ghost>>
    ELSE IF wstate[w] = "Unlocked"
    THEN /\ last' = [call EXCEPT !.res = "Ok"]
         /\ UNCHANGED <<disk, wstate, keys, store, now, server, config, inflight, counters, ghost>>
    ELSE IF saltFile = 0
    THEN /\ last' = [call EXCEPT !.res = "WalletNotInitialized"]
         /\ UNCHANGED <<disk, wstate, keys, store, now, server, config, inflight, counters, ghost>>
    ELSE LET master_key == derive_key(pw, saltFile)
         IN  IF ~verify_key(master_key)
             THEN /\ storageKey' = [storageKey EXCEPT ![w] = NoKey]
                  /\ last' = [call EXCEPT !.res = "InvalidPassword"]
                  /\ UNCHANGED <<disk, wstate, facadeKey, credKey, store, now, server, config, inflight,
                                 counters, ghost>>
             ELSE /\ FinishUnlock(w, master_key, call)
                  /\ UNCHANGED <<disk, now, server, config, inflight, counters, truth, password, noSessionSince>>

\* Wallet::unlock_with_session.  load_session reads the clock at `now`,
\* get_master_key reads it again at t, which may be a second later.
UnlockWithSession(w) ==
    LET call == [Call("unlock_with_session", w, "") EXCEPT !.sess = SessionStatus,
                    !.pre = IF last.op = "new" /\ last.w = w
                               /\ last.pre = "session_created"
                            THEN "handoff" ELSE ""]
    IN
    IF wstate[w] = "NotInitialized"
    THEN /\ last' = [call EXCEPT !.res = "WalletNotInitialized"]
         /\ UNCHANGED <<disk, wstate, keys, store, now, server, config, inflight, counters, ghost>>
    ELSE IF wstate[w] = "Unlocked"
    THEN /\ last' = [call EXCEPT !.res = "Ok"]
         /\ UNCHANGED <<disk, wstate, keys, store, now, server, config, inflight, counters, ghost>>
    ELSE IF load_session(sessionFile, now) = "None"
    THEN /\ sessionFile' = SessionSeen
         /\ last' = [call EXCEPT !.res = "InvalidSession"]
         /\ UNCHANGED <<saltFile, verifyFile, walletFile, wstate, keys, store, now, server, config, inflight,
                        counters, ghost>>
    ELSE \E t \in {now, now + 1} :
         /\ t <= MaxTime
         /\ now' = t
         /\ UNCHANGED <<server, config, inflight>>
         /\ LET got == get_master_key(sessionFile, sessionFile.token, t)
            IN  IF got.res # "Ok"
                THEN /\ last' = [call EXCEPT !.res = got.res]
                     /\ UNCHANGED <<disk, wstate, keys, store, counters, ghost>>
                ELSE IF ~verify_key(got.key)
                THEN /\ storageKey' = [storageKey EXCEPT ![w] = NoKey]
                     /\ last' = [call EXCEPT !.res = "InvalidSession"]
                     /\ UNCHANGED <<disk, wstate, facadeKey, credKey, store,
                                    counters, ghost>>
                ELSE /\ FinishUnlock(w, got.key, call)
                     /\ UNCHANGED <<disk, counters, truth, password, noSessionSince>>

\* Wallet::create_session
CreateSession(w, duration) ==
    IF wstate[w] # "Unlocked" \/ facadeKey[w] = NoKey
    THEN /\ last' = Call("create_session", w, "WalletLocked")
         /\ UNCHANGED <<disk, wstate, keys, store, now, server, config, inflight, counters, ghost>>
    ELSE \E token \in Tokens :
         /\ sessionFile' = Session_create(facadeKey[w], token, duration, now)
         /\ noSessionSince' = "no"
         /\ last' = Call("create_session", w, "Ok")
         /\ UNCHANGED <<saltFile, verifyFile, walletFile, wstate, keys, store, now, server, config, inflight,
                        counters, truth, password, lockedSince>>

\* Wallet::has_valid_session
HasValidSession(w) ==
    /\ sessionFile' = SessionSeen
    /\ last' = [Call("has_valid_session", w,
                     IF load_session(sessionFile, now) = "Some" THEN "true" ELSE "false")
                EXCEPT !.sess = SessionStatus]
    /\ UNCHANGED <<saltFile, verifyFile, walletFile, wstate, keys, store, now, server, config, inflight,
                   counters, ghost>>

\* Wallet::clear_session
ClearSession(w) ==
    /\ sessionFile' = clear_session(sessionFile)
    /\ last' = Call("clear_session", w, "Ok")
    /\ UNCHANGED <<saltFile, verifyFile, walletFile, wstate, keys, store, now, server, config, inflight,
                   counters, ghost>>

\* Wallet::lock
Lock(w) ==
    /\ storageKey' = [storageKey EXCEPT ![w] = NoKey]
    /\ credKey' = [credKey EXCEPT ![w] = NoKey]
    /\ facadeKey' = [facadeKey EXCEPT ![w] = NoKey]
    /\ sessionFile' = clear_session(sessionFile)
    /\ wstate' = [wstate EXCEPT ![w] = "Locked"]
    /\ lockedSince' = [lockedSince EXCEPT ![w] = TRUE]
    /\ noSessionSince' = IF sessionFile.exists \/ noSessionSince = "cleared"
                       THEN "cleared" ELSE "absent"
    /\ last' = [Call("lock", w, "Ok") EXCEPT
                  !.pre = IF last.op = "change_password" /\ last.res = "Ok"
                             /\ last.w = w
                          THEN "password_changed" ELSE ""]
    /\ UNCHANGED <<saltFile, verifyFile, walletFile, store, now, server, config, inflight, counters, truth,
                   password>>

\* Wallet::change_password
ChangePassword(w, old, new) ==
    LET call == Call("change_password", w, "")
    IN
    IF wstate[w] = "NotInitialized" \/ saltFile = 0
    THEN /\ last' = [call EXCEPT !.res = "WalletNotInitialized"]
         /\ UNCHANGED <<disk, wstate, keys, store, now, server, config, inflight, counters, ghost>>
    ELSE IF ~verify_key(derive_key(old, saltFile))
    THEN /\ storageKey' = [storageKey EXCEPT ![w] = NoKey]
         /\ last' = [call EXCEPT !.res = "InvalidPassword"]
         /\ UNCHANGED <<disk, wstate, facadeKey, credKey, store, now, server, config, inflight, counters, ghost>>
    ELSE /\ nextSalt <= MaxSalt
         /\ LET new_key == derive_key(new, nextSalt)
            IN  /\ saltFile' = nextSalt
                /\ storageKey' = [storageKey EXCEPT ![w] = new_key]
                /\ verifyFile' = save_verification(new_key)
                /\ credKey' = [credKey EXCEPT ![w] = new_key]
         /\ nextSalt' = nextSalt + 1
         /\ password' = new
         /\ last' = [call EXCEPT !.res = "Ok"]
         /\ UNCHANGED <<walletFile, sessionFile, wstate, facadeKey, store, now, server, config, inflight,
                        nextCred, nextInteg, truth, lockedSince, noSessionSince>>

\* Wallet::reset: storage.clear() empties the cache and saves wallet.json;
\* settings_manager.reset() takes Settings::default() and removes settings.json.
Reset(w) ==
    /\ cache' = [cache EXCEPT ![w] = EmptyEntries]
    /\ dirty' = [dirty EXCEPT ![w] = TRUE]
    /\ walletFile' = save(EmptyEntries, TRUE)
    /\ sessionFile' = clear_session(sessionFile)
    /\ facadeKey' = [facadeKey EXCEPT ![w] = NoKey]
    /\ storageKey' = [storageKey EXCEPT ![w] = NoKey]
    /\ credKey' = [credKey EXCEPT ![w] = NoKey]
    /\ wstate' = [wstate EXCEPT ![w] = "NotInitialized"]
    /\ truth' = [id \in CredIds |-> ""]
    /\ password' = ""
    /\ settings' = [settings EXCEPT ![w] = Settings_default]
    /\ settingsFile' = NoSettingsFile
    /\ last' = Call("reset", w, "Ok")
    /\ UNCHANGED <<saltFile, verifyFile, registry, now, server, inflight, counters,
                   lockedSince, noSessionSince>>

\* ------------------------------------------------- credential operations
\* EncryptedFileStorage::store of one entry by instance w, then save()
StoreAndSave(w, ek, stored) ==
    LET entries == store_entry(cache[w], storageKey[w], ek, stored)
    IN  /\ cache' = [cache EXCEPT ![w] = entries]
        /\ dirty' = [dirty EXCEPT ![w] = TRUE]
        /\ walletFile' = save(entries, TRUE)

\* CredentialManager::add_api_key
AddApiKey(w, secret) ==
    /\ nextCred <= MaxCreds
    /\ LET call == [Call("add_api_key", w, "") EXCEPT !.id = nextCred]
       IN
       IF credKey[w] = NoKey \/ storageKey[w] = NoKey
       THEN /\ last' = [call EXCEPT !.res = "WalletLocked"]
            /\ UNCHANGED <<disk, wstate, keys, store, now, server, config, inflight, counters, ghost>>
       ELSE /\ StoreAndSave(w, CredKey(nextCred),
                            StoredCredential(encrypt_string(secret, credKey[w]), FALSE))
            /\ nextCred' = nextCred + 1
            /\ truth' = [truth EXCEPT ![nextCred] =
                           IF wstate[w] = "Unlocked" THEN secret ELSE ""]
            /\ last' = [call EXCEPT !.res = "Ok"]
            /\ UNCHANGED <<saltFile, verifyFile, sessionFile, wstate, keys, registry,
                           now, server, config, inflight, nextSalt, nextInteg, password, lockedSince,
                           noSessionSince>>

\* CredentialManager::get_decrypted, with its update_last_used
GetDecrypted(w, id) ==
    LET got == get_decrypted(w, id)
        call == [Call("get_decrypted", w, got.res) EXCEPT !.id = id, !.val = got.val]
    IN  /\ last' = call
        /\ IF got.res = "Ok"
           THEN LET stored == retrieve(cache[w], storageKey[w], CredKey(id)).pt
                IN  StoreAndSave(w, CredKey(id), StoredCredential(stored.enc, TRUE))
           ELSE UNCHANGED <<walletFile, cache, dirty>>
        /\ UNCHANGED <<saltFile, verifyFile, sessionFile, wstate, keys, registry, now, server, config, inflight,
                       counters, ghost>>

\* CredentialManager::update_value
UpdateValue(w, id, secret) ==
    LET call == [Call("update_value", w, "") EXCEPT !.id = id]
        r == retrieve(cache[w], storageKey[w], CredKey(id))
        res == IF credKey[w] = NoKey THEN "WalletLocked"
               ELSE IF r.res = "None" THEN "CredentialNotFound"
               ELSE IF r.res = "Some" THEN "Ok" ELSE r.res
    IN  /\ last' = [call EXCEPT !.res = res]
        /\ IF res = "Ok"
           THEN /\ StoreAndSave(w, CredKey(id),
                     StoredCredential(encrypt_string(secret, credKey[w]), r.pt.used))
                /\ truth' = [truth EXCEPT ![id] = ""]
           ELSE UNCHANGED <<walletFile, cache, dirty, truth>>
        /\ UNCHANGED <<saltFile, verifyFile, sessionFile, wstate, keys, registry, now, server, config, inflight,
                       counters, password, lockedSince, noSessionSince>>

\* CredentialManager::delete: EncryptedFileStorage::delete needs no key
DeleteCredential(w, id) ==
    /\ last' = [Call("delete", w, "Ok") EXCEPT !.id = id]
    /\ IF cache[w][CredKey(id)].present
       THEN LET entries == [cache[w] EXCEPT ![CredKey(id)] = NoEntry]
            IN  /\ cache' = [cache EXCEPT ![w] = entries]
                /\ dirty' = [dirty EXCEPT ![w] = TRUE]
                /\ walletFile' = save(entries, TRUE)
       ELSE UNCHANGED <<walletFile, cache, dirty>>
    /\ truth' = [truth EXCEPT ![id] = ""]
    /\ UNCHANGED <<saltFile, verifyFile, sessionFile, wstate, keys, registry, now, server, config, inflight,
                   counters, password, lockedSince, noSessionSince>>

\* IntegrationRegistry::add_from_content with a well-formed document
AddIntegration(w, slug, doc) ==
    /\ nextInteg <= MaxIntegs
    /\ LET stored == from_spec(slug, doc, nextInteg, now)
       IN
       IF storageKey[w] = NoKey
       THEN /\ last' = [Call("add_from_content", w, "WalletLocked") EXCEPT !.val = slug]
            /\ UNCHANGED <<disk, wstate, keys, store, now, server, config, inflight, counters, ghost>>
       ELSE /\ StoreAndSave(w, IntegKey(slug), StoredIntegration(stored))
            /\ registry' = [registry EXCEPT ![w][slug] = stored]
            /\ nextInteg' = nextInteg + 1
            /\ last' = [Call("add_from_content", w, "Ok") EXCEPT !.val = slug]
            /\ UNCHANGED <<saltFile, verifyFile, sessionFile, wstate, keys, now, server, config, inflight,
                           nextSalt, nextCred, ghost>>

\* The first integration of a data directory, x, added from content.
AddFirstIntegration(w, doc) == nextInteg = 1 /\ AddIntegration(w, "x", doc)

\* IntegrationRegistry::add_from_url; fetched is the document fetch_and_parse
\* returns, 0 when the fetch or the parse fails
AddFromUrl(w, slug, url, fetched) ==
    /\ nextInteg <= MaxIntegs
    /\ LET call == [Call("add_from_url", w, "") EXCEPT !.val = slug, !.doc = fetched]
           stored == [from_spec(slug, fetched, nextInteg, now) EXCEPT !.spec_url = url]
       IN
       IF fetched = 0
       THEN /\ last' = [call EXCEPT !.res = "InvalidSpec"]
            /\ UNCHANGED <<disk, wstate, keys, store, now, server, config, inflight, counters, ghost>>
       ELSE IF storageKey[w] = NoKey
       THEN /\ last' = [call EXCEPT !.res = "WalletLocked"]
            /\ UNCHANGED <<disk, wstate, keys, store, now, server, config, inflight, counters, ghost>>
       ELSE /\ StoreAndSave(w, IntegKey(slug), StoredIntegration(stored))
            /\ registry' = [registry EXCEPT ![w][slug] = stored]
            /\ nextInteg' = nextInteg + 1
            /\ last' = [call EXCEPT !.res = "Ok"]
            /\ UNCHANGED <<saltFile, verifyFile, sessionFile, wstate, keys, now, server, config, inflight,
                           nextSalt, nextCred, ghost>>

\* A cache mutation followed by save_integration: the cache holds the new
\* value whether or not the store succeeds.
MutateAndPersist(w, slug, stored, call) ==
    /\ registry' = [registry EXCEPT ![w][slug] = stored]
    /\ IF storageKey[w] = NoKey
       THEN /\ last' = [call EXCEPT !.res = "WalletLocked"]
            /\ UNCHANGED <<walletFile, cache, dirty>>
       ELSE /\ StoreAndSave(w, IntegKey(slug), StoredIntegration(stored))
            /\ last' = [call EXCEPT !.res = "Ok"]
    /\ UNCHANGED <<saltFile, verifyFile, sessionFile, wstate, keys, now, server, config, inflight, counters,
                   ghost>>

\* sync keeping the Uuid from_spec made
sync_update_new_id(old, fresh) ==
    [fresh EXCEPT !.spec_url = old.spec_url, !.credential_id = old.credential_id,
                  !.status = old.status, !.created_at = old.created_at]

\* What sync puts in the cache: the StoredIntegration made from the fetched
\* spec, with the old spec_url, credential_id, status, id and created_at.
sync_update(old, fresh) ==
    [fresh EXCEPT !.spec_url = old.spec_url, !.credential_id = old.credential_id,
                  !.status = old.status, !.id = old.id,
                  !.created_at = old.created_at]

\* IntegrationRegistry::sync; fetched as in AddFromUrl
Sync(w, slug, fetched) ==
    LET call == [Call("sync", w, "") EXCEPT !.val = slug, !.doc = fetched]
        old == registry[w][slug]
    IN
    IF ~old.present \/ old.spec_url = ""
    THEN /\ last' = [call EXCEPT !.res = "IntegrationNotFound"]
         /\ UNCHANGED <<disk, wstate, keys, store, now, server, config, inflight, counters, ghost>>
    ELSE IF fetched = 0
    THEN /\ last' = [call EXCEPT !.res = "InvalidSpec"]
         /\ UNCHANGED <<disk, wstate, keys, store, now, server, config, inflight, counters, ghost>>
    ELSE MutateAndPersist(w, slug,
             sync_update(old, from_spec(slug, fetched, nextInteg, now)), call)

\* IntegrationRegistry::set_credential
SetCredential(w, slug, credential_id) ==
    LET call == [Call("set_credential", w, "") EXCEPT !.val = slug, !.id = credential_id]
        old == registry[w][slug]
    IN
    IF ~old.present
    THEN /\ last' = [call EXCEPT !.res = "Ok"]
         /\ UNCHANGED <<disk, wstate, keys, store, now, server, config, inflight, counters, ghost>>
    ELSE MutateAndPersist(w, slug,
             [old EXCEPT !.credential_id = credential_id, !.status = "active",
                         !.updated_at = now], call)

\* IntegrationRegistry::set_status
SetStatus(w, slug, status) ==
    LET call == [Call("set_status", w, "") EXCEPT !.val = slug, !.pre = status]
        old == registry[w][slug]
    IN
    IF ~old.present
    THEN /\ last' = [call EXCEPT !.res = "Ok"]
         /\ UNCHANGED <<disk, wstate, keys, store, now, server, config, inflight, counters, ghost>>
    ELSE MutateAndPersist(w, slug,
             [old EXCEPT !.status = status, !.updated_at = now], call)

\* IntegrationRegistry::remove: storage.delete, then the cache entry
RemoveIntegration(w, slug) ==
    /\ last' = [Call("remove", w, "Ok") EXCEPT !.val = slug]
    /\ IF cache[w][IntegKey(slug)].present
       THEN LET entries == [cache[w] EXCEPT ![IntegKey(slug)] = NoEntry]
            IN  /\ cache' = [cache EXCEPT ![w] = entries]
                /\ dirty' = [dirty EXCEPT ![w] = TRUE]
                /\ walletFile' = save(entries, TRUE)
       ELSE UNCHANGED <<walletFile, cache, dirty>>
    /\ registry' = [registry EXCEPT ![w][slug] = NoIntegration]
    /\ UNCHANGED <<saltFile, verifyFile, sessionFile, wstate, keys, now, server, config, inflight, counters,
                   ghost>>

\* ---------------------------------------------------- the storage alone
\* Byte strings given to store: 65 is an ASCII byte, 255 is not valid UTF-8
ByteStrings == {<<65>>, <<255>>}

\* Keys given to the storage operations
StorageKeys == {CredKey(1), IntegKey("x")}

\* Prefixes given to list_keys
Prefixes == {"", "credential:", "integration:"}

\* str::starts_with on a storage key
starts_with(ek, prefix) == prefix = "" \/ ek[1] = prefix

\* EncryptedFileStorage::exists on a cache
exists(entries, ek) == entries[ek].present

\* EncryptedFileStorage::list_keys on a cache
list_keys(entries, prefix) ==
    {ek \in EntryKeys : entries[ek].present /\ starts_with(ek, prefix)}

\* EncryptedFileStorage::with_dir: a new storage object over the directory
WithDir(w) ==
    /\ cache' = [cache EXCEPT ![w] = EmptyEntries]
    /\ dirty' = [dirty EXCEPT ![w] = FALSE]
    /\ storageKey' = [storageKey EXCEPT ![w] = NoKey]
    /\ last' = Call("with_dir", w, "Ok")
    /\ UNCHANGED <<disk, wstate, facadeKey, credKey, registry, now, server, config, inflight, counters, ghost>>

\* EncryptedFileStorage::set_master_key
SetMasterKey(w, k) ==
    /\ storageKey' = [storageKey EXCEPT ![w] = k]
    /\ last' = Call("set_master_key", w, "Ok")
    /\ UNCHANGED <<disk, wstate, facadeKey, credKey, store, now, server, config, inflight, counters, ghost>>

\* EncryptedFileStorage::load
StorageLoad(w) ==
    /\ cache' = [cache EXCEPT ![w] = load(cache[w])]
    /\ dirty' = [dirty EXCEPT ![w] = load_dirty(dirty[w])]
    /\ last' = Call("load", w, "Ok")
    /\ UNCHANGED <<disk, wstate, keys, registry, now, server, config, inflight, counters, ghost>>

\* EncryptedFileStorage::store
StorageStore(w, ek, bytes) ==
    LET call == [Call("store", w, "") EXCEPT !.key = ek, !.bytes = bytes]
    IN  /\ IF storageKey[w] = NoKey
           THEN /\ last' = [call EXCEPT !.res = "WalletLocked"]
                /\ UNCHANGED <<walletFile, cache, dirty>>
           ELSE /\ last' = [call EXCEPT !.res = "Ok"]
                /\ StoreAndSave(w, ek, RawBytes(bytes))
        /\ UNCHANGED <<saltFile, verifyFile, sessionFile, wstate, keys, registry, now, server, config, inflight,
                       counters, ghost>>

\* EncryptedFileStorage::delete
StorageDelete(w, ek) ==
    /\ last' = [Call("delete", w, "Ok") EXCEPT !.key = ek]
    /\ IF cache[w][ek].present
       THEN LET entries == [cache[w] EXCEPT ![ek] = NoEntry]
            IN  /\ cache' = [cache EXCEPT ![w] = entries]
                /\ dirty' = [dirty EXCEPT ![w] = TRUE]
                /\ walletFile' = save(entries, TRUE)
       ELSE UNCHANGED <<walletFile, cache, dirty>>
    /\ UNCHANGED <<saltFile, verifyFile, sessionFile, wstate, keys, registry, now, server, config, inflight,
                   counters, ghost>>

\* EncryptedFileStorage::clear
StorageClear(w) ==
    /\ last' = Call("clear", w, "Ok")
    /\ cache' = [cache EXCEPT ![w] = EmptyEntries]
    /\ dirty' = [dirty EXCEPT ![w] = TRUE]
    /\ walletFile' = save(EmptyEntries, TRUE)
    /\ UNCHANGED <<saltFile, verifyFile, sessionFile, wstate, keys, registry, now, server, config, inflight,
                   counters, ghost>>

\* EncryptedFileStorage::retrieve
StorageRetrieve(w, ek) ==
    LET r == retrieve(cache[w], storageKey[w], ek)
    IN  /\ last' = [Call("retrieve", w, r.res) EXCEPT !.key = ek, !.bytes = r.pt.bytes]
        /\ UNCHANGED <<disk, wstate, keys, store, now, server, config, inflight, counters, ghost>>

\* EncryptedFileStorage::exists
StorageExists(w, ek) ==
    /\ last' = [Call("exists", w, IF exists(cache[w], ek) THEN "true" ELSE "false")
                  EXCEPT !.key = ek]
    /\ UNCHANGED <<disk, wstate, keys, store, now, server, config, inflight, counters, ghost>>

\* EncryptedFileStorage::list_keys
StorageListKeys(w, prefix) ==
    /\ last' = [Call("list_keys", w, "Ok") EXCEPT !.val = prefix,
                                                  !.found = list_keys(cache[w], prefix)]
    /\ UNCHANGED <<disk, wstate, keys, store, now, server, config, inflight, counters, ghost>>

\* ToolExecutor::execute_operation on the pending call: the request it sends.
\* The response does not change what was sent.
ExecuteOperation ==
    /\ last.op = "execute_operation" /\ last.res = "pending"
    /\ LET request == build_request(last.exec.base_url, last.exec.operation,
                                    last.exec.arguments, "s1")
       IN  last' = [last EXCEPT !.res = IF request.sent THEN "Ok" ELSE "ParseError",
                                !.request = request]
    /\ UNCHANGED <<disk, wstate, keys, store, now, server, config, inflight, counters, ghost>>

\* A message handled by the RequestHandler of transport t over wallet w, and
\* the messages the transport then writes
Served(t, w, message, handled, written) ==
    /\ last' = [Call(t, w, handled.execution.res) EXCEPT
                    !.msg = message, !.reply = written,
                    !.id = handled.execution.credential_id,
                    !.request = handled.execution.request]
    /\ initialized' = [initialized EXCEPT ![t] = handled.initialized]
    /\ IF handled.execution.credential_id # 0
       THEN LET ek == CredKey(handled.execution.credential_id)
                stored == retrieve(cache[w], storageKey[w], ek).pt
            IN  StoreAndSave(w, ek, StoredCredential(stored.enc, TRUE))
       ELSE UNCHANGED <<walletFile, cache, dirty>>
    /\ UNCHANGED <<saltFile, verifyFile, sessionFile, wstate, keys, registry, now,
                   counters, ghost, config, tmpFile, partial>>

\* StdioTransport::run, the body of the loop for a line of text: a parse
\* error is answered with -32700, a message is handled and its response, if
\* any, written
stdio_line(w, line, http) ==
    IF ~line.json
    THEN Served("stdio", w, line, Handled(<<>>, initialized["stdio"], NoExecution("")),
                <<error_response(NoId, -32700)>>)
    ELSE LET handled == handle(w, initialized["stdio"], line, http)
         IN  Served("stdio", w, line, handled, handled.reply)

\* One line read and answered by the stdio transport
StdioLine(w, line, http) ==
    /\ stdio_line(w, line, http)
    /\ UNCHANGED tasks

\* handle_mcp_request: POST /mcp with a JSON message
HttpPost(w, message, http) ==
    LET handled == handle(w, initialized["http"], message, http)
    IN  /\ Served("http", w, message, handled,
                  IF handled.reply # <<>> THEN handled.reply
                  ELSE <<response("null", Result("empty"))>>)
        /\ UNCHANGED tasks

\* The clock advances.
Tick ==
    /\ now < MaxTime
    /\ now' = now + 1
    /\ UNCHANGED <<disk, wstate, keys, store, counters, last, ghost, server, config, inflight>>

\* One wallet process at a time over the data directory: instance 1 drives
\* the whole facade and may be started again.
Next ==
    \/ \E w \in Owners : NewInstance(w)
    \/ \E w \in Owners, pw \in Passwords : Initialize(w, pw)
    \/ \E w \in Owners, pw \in Passwords : Unlock(w, pw)
    \/ \E w \in Owners : UnlockWithSession(w)
    \/ \E w \in Owners : CreateSession(w, 0)
    \/ \E w \in Owners : HasValidSession(w)
    \/ \E w \in Owners : ClearSession(w)
    \/ \E w \in Owners : Lock(w)
    \/ \E w \in Owners, old \in Passwords, new \in Passwords : ChangePassword(w, old, new)
    \/ \E w \in Owners : Reset(w)
    \/ \E w \in Owners, s \in Secrets : AddApiKey(w, s)
    \/ \E w \in Owners, id \in CredIds : GetDecrypted(w, id)
    \/ \E w \in Owners, id \in CredIds, s \in NewSecrets : UpdateValue(w, id, s)
    \/ \E w \in Owners, id \in CredIds : DeleteCredential(w, id)
    \/ \E w \in Owners : AddFirstIntegration(w, 1)
    \/ Tick

Spec == Init /\ [][Next]_vars

\* Session handoff: the desktop application (instance 1) and the MCP server
\* process (instance 2) over the same data directory.  The server process is
\* constructed, unlocks by session or password and asks for the session; the
\* application drives the rest of the facade lifecycle.
NextHandoff ==
    \/ \E w \in W : NewInstance(w)
    \/ \E w \in Owners, pw \in Passwords : Initialize(w, pw)
    \/ \E w \in W, pw \in Passwords : Unlock(w, pw)
    \/ \E w \in W : UnlockWithSession(w)
    \/ \E w \in Owners, d \in Durations : CreateSession(w, d)
    \/ \E w \in W : HasValidSession(w)
    \/ \E w \in Owners : ClearSession(w)
    \/ \E w \in Owners : Lock(w)
    \/ \E w \in Owners, old \in Passwords, new \in Passwords : ChangePassword(w, old, new)
    \/ \E w \in Owners : Reset(w)
    \/ Tick

SpecHandoff == Init /\ [][NextHandoff]_vars

\* The integration registry of the application, with the wallet operations
\* that install and remove the storage key.
NextRegistry ==
    \/ \E w \in Owners : Initialize(w, "a")
    \/ \E w \in Owners : Unlock(w, "a")
    \/ \E w \in Owners : Lock(w)
    \/ \E w \in Owners : AddIntegration(w, "y", 1)
    \/ \E w \in Owners, slug \in Slugs, url \in Urls, fetched \in {0, 1} :
           AddFromUrl(w, slug, url, fetched)
    \/ \E w \in Owners, slug \in Slugs, fetched \in Documents \cup {0} :
           Sync(w, slug, fetched)
    \/ \E w \in Owners, id \in CredIds : SetCredential(w, "x", id)
    \/ \E w \in Owners : SetStatus(w, "x", "disabled")
    \/ \E w \in Owners : RemoveIntegration(w, "y")
    \/ Tick

SpecRegistry == Init /\ [][NextRegistry]_vars

\* Storage objects over one directory, used through SecureStorage alone;
\* with_dir on one of them again is its process started again.
NextStorage ==
    \/ \E w \in W : WithDir(w)
    \/ \E w \in W : SetMasterKey(w, derive_key("a", 1))
    \/ \E w \in W : StorageLoad(w)
    \/ \E w \in W, ek \in StorageKeys, bytes \in ByteStrings :
           StorageStore(w, ek, bytes)
    \/ \E w \in W, ek \in StorageKeys : StorageDelete(w, ek)
    \/ \E w \in W : StorageClear(w)
    \/ \E w \in W, ek \in StorageKeys : StorageRetrieve(w, ek)
    \/ \E w \in W, ek \in StorageKeys : StorageExists(w, ek)
    \/ \E w \in W, prefix \in Prefixes : StorageListKeys(w, prefix)

SpecStorage == Init /\ [][NextStorage]_vars

\* The MCP server over its wallet, on both transports, with the wallet
\* operations that make a tool call possible.
NextServer ==
    \/ \E w \in Owners : Initialize(w, "a")
    \/ \E w \in Owners : Lock(w)
    \/ \E w \in Owners : AddApiKey(w, "s1")
    \/ \E w \in Owners : AddFirstIntegration(w, 1)
    \/ \E w \in Owners, id \in CredIds : SetCredential(w, "x", id)
    \/ \E w \in Owners, line \in Messages \cup {Garbage} : \E http \in outcomes(line) :
           StdioLine(w, line, http)
    \/ \E w \in Owners, message \in Messages : \E http \in outcomes(message) :
           HttpPost(w, message, http)

SpecServer == Init /\ [][NextServer]_vars

\* ------------------------------------------- the loop of the stdio transport
MaxLines == 2       \* lines read from stdin in one behaviour

\* StdioTransport::run is called: the task is the loop, with the responses
\* written to stdout so far and the number of lines read
StdioStart(t, w) ==
    /\ tasks[t].pc = "idle"
    /\ tasks' = [tasks EXCEPT ![t] = [op |-> "run", pc |-> "read", w |-> w,
                                     out |-> <<>>, n |-> 0]]
    /\ UNCHANGED <<disk, wstate, keys, store, now, counters, last, ghost, server,
                   config, tmpFile, partial>>

\* run: read_line gives a line of text that is not empty when trimmed; the
\* responses are written in the iteration that read the line
StdioRead(t, line, http) ==
    /\ tasks[t].op = "run" /\ tasks[t].pc = "read" /\ tasks[t].n < MaxLines
    /\ stdio_line(tasks[t].w, line, http)
    /\ tasks' = [tasks EXCEPT ![t].out = @ \o last'.reply, ![t].n = @ + 1]

\* run: read_line gives a line that is empty when trimmed: continue
StdioBlank(t) ==
    /\ tasks[t].op = "run" /\ tasks[t].pc = "read" /\ tasks[t].n < MaxLines
    /\ tasks' = [tasks EXCEPT ![t].n = @ + 1]
    /\ last' = [Call("stdio", tasks[t].w, "Ok") EXCEPT !.pre = "blank"]
    /\ UNCHANGED <<disk, wstate, keys, store, now, counters, ghost, server,
                   config, tmpFile, partial>>

\* run: read_line returns Err, which it does for a line whose bytes are not
\* UTF-8 (tokio's read_line: InvalidData); the `?` returns it from run
StdioBadLine(t) ==
    /\ tasks[t].op = "run" /\ tasks[t].pc = "read" /\ tasks[t].n < MaxLines
    /\ tasks' = [tasks EXCEPT ![t].pc = "failed", ![t].n = @ + 1]
    /\ last' = [Call("stdio", tasks[t].w, "Io") EXCEPT !.pre = "bytes"]
    /\ UNCHANGED <<disk, wstate, keys, store, now, counters, ghost, server,
                   config, tmpFile, partial>>

\* run: read_line returns 0 bytes, the end of input: break, Ok(())
StdioEof(t) ==
    /\ tasks[t].op = "run" /\ tasks[t].pc = "read"
    /\ tasks' = [tasks EXCEPT ![t].pc = "ended"]
    /\ last' = [Call("stdio", tasks[t].w, "Ok") EXCEPT !.pre = "eof"]
    /\ UNCHANGED <<disk, wstate, keys, store, now, counters, ghost, server,
                   config, tmpFile, partial>>

\* The server on stdio over a wallet that is initialized or not.
NextStdio ==
    \/ Initialize(1, "a")
    \/ StdioStart(1, 1)
    \/ \E line \in Messages \cup {Garbage} : \E http \in outcomes(line) :
           StdioRead(1, line, http)
    \/ StdioBlank(1)
    \/ StdioBadLine(1)
    \/ StdioEof(1)

SpecStdio == Init /\ [][NextStdio]_vars

\* execute_operation as a function of its arguments: a call of it is pending
\* with any base URL, operation and arguments.
InitRequest ==
    /\ InitWallet
    /\ \E base_url \in Bases, operation \in Operations, arguments \in Arguments :
           last = [Start EXCEPT !.op = "execute_operation", !.res = "pending",
                                !.exec = [base_url |-> base_url,
                                          operation |-> operation,
                                          arguments |-> arguments]]

NextRequest == ExecuteOperation

SpecRequest == InitRequest /\ [][NextRequest]_vars

\* ------------------------------------------- the namespace tree, alone
\* NamespaceTree::build(&operations) followed by paths(), as from_spec and
\* the parser's callers use them.
BuildNamespace ==
    /\ last.op = "build" /\ last.res = "pending"
    /\ last' = [last EXCEPT !.res = "Ok",
                            !.ns = [operations |-> last.ns.operations,
                                    built |-> TRUE,
                                    tree |-> build(last.ns.operations),
                                    paths |-> paths(build(last.ns.operations))]]
    /\ UNCHANGED <<disk, wstate, keys, store, now, counters, ghost, server, config, inflight>>

\* A parsed spec with any list of operations, its tree not built yet.
InitNamespace ==
    /\ InitWallet
    /\ \E operations \in OperationLists :
           last = [Start EXCEPT !.op = "build", !.res = "pending",
                                !.ns = [NoNamespace EXCEPT
                                            !.operations = operations]]

NextNamespace == BuildNamespace

SpecNamespace == InitNamespace /\ [][NextNamespace]_vars

\* ------------------------------------------------------ schema resolver
\* (openapi-parser: resolver.rs).  A JSON value of a schema is a string schema,
\* an object that is a $ref to a name, an object with properties (its keys
\* are 1, 2, ...) or an array schema with items.
max_depth == 10

SchemaNames == {"A", "B"}

\* "C" names no component schema
SchemaLeaves == {[kind |-> "string"]} \cup {[kind |-> "ref", name |-> n] : n \in SchemaNames \cup {"C"}}

SchemaValues ==
    SchemaLeaves
        \cup {[kind |-> "object", properties |-> <<s>>] : s \in SchemaLeaves}
        \cup {[kind |-> "object", properties |-> <<s, t>>] : s, t \in SchemaLeaves}
        \cup {[kind |-> "array", items |-> s] : s \in SchemaLeaves}

\* the component schemas of a spec
Components == [SchemaNames -> SchemaValues]

\* a resolver that stops one level later
beyond_limit_late(depth) == depth > max_depth + 1

\* resolve_with_depth: depth > self.max_depth
beyond_limit(depth) == depth > max_depth

\* resolve_ref of the $ref of a schema succeeds (the prefix is
\* #/components/schemas/ and the name is one of the components)
resolves(schemas, schema) ==
    schema.kind = "ref" /\ schema.name \in DOMAIN schemas

\* SchemaResolver::resolve_with_depth with resolve_properties
RECURSIVE resolve_with_depth(_, _, _)
resolve_with_depth(schemas, schema, depth) ==
    IF beyond_limit(depth) THEN schema
    ELSE IF resolves(schemas, schema)
    THEN resolve_with_depth(schemas, schemas[schema.name], depth + 1)
    ELSE IF schema.kind = "object"
    THEN [kind |-> "object",
          properties |-> [i \in DOMAIN schema.properties |->
                             resolve_with_depth(schemas, schema.properties[i],
                                                depth + 1)]]
    ELSE IF schema.kind = "array"
    THEN [kind |-> "array",
          items |-> resolve_with_depth(schemas, schema.items, depth + 1)]
    ELSE schema

\* SchemaResolver::resolve
resolve(schemas, schema) == resolve_with_depth(schemas, schema, 0)

\* The part of a value at a path of keys (0 is "items")
RECURSIVE value_at(_, _)
value_at(value, path) ==
    IF path = <<>> THEN value
    ELSE IF Head(path) = 0 THEN value_at(value.items, Tail(path))
    ELSE value_at(value.properties[Head(path)], Tail(path))

\* resolve(schema) is called: the calls of resolve_with_depth are followed
\* along one branch of the recursion, whichever it is.  `node` and `depth`
\* are the arguments of the call that runs, `path` the keys on the way from
\* the root of the result to the place where the result of the call goes.
InitResolver ==
    /\ InitWallet
    /\ \E schemas \in Components,
          schema \in SchemaLeaves \cup {[kind |-> "object",
                                          properties |-> <<[kind |-> "ref", name |-> "A"],
                                                           [kind |-> "ref", name |-> "B"]>>]} :
           last = [Start EXCEPT !.op = "resolve", !.res = "pending",
                                !.ns = [schemas |-> schemas, root |-> schema,
                                        node |-> schema, depth |-> 0,
                                        path |-> <<>>, done |-> FALSE]]

\* A call of resolve_with_depth made by the call that runs
Recurse(schema, path) ==
    /\ last' = [last EXCEPT !.ns.node = schema, !.ns.depth = @ + 1,
                            !.ns.path = path]
    /\ UNCHANGED <<disk, wstate, keys, store, now, counters, ghost, server, config, inflight>>

\* resolve_with_depth: the $ref is resolved and the referenced schema resolved
\* in its place
FollowRef ==
    LET call == last.ns
    IN  /\ last.op = "resolve" /\ ~call.done /\ ~beyond_limit(call.depth)
        /\ resolves(call.schemas, call.node)
        /\ Recurse(call.schemas[call.node.name], call.path)

\* resolve_properties: one of the properties is resolved
ResolveProperty(i) ==
    LET call == last.ns
    IN  /\ last.op = "resolve" /\ ~call.done /\ ~beyond_limit(call.depth)
        /\ call.node.kind = "object" /\ i \in DOMAIN call.node.properties
        /\ Recurse(call.node.properties[i], Append(call.path, i))

\* resolve_with_depth: "items" is resolved
ResolveItems ==
    LET call == last.ns
    IN  /\ last.op = "resolve" /\ ~call.done /\ ~beyond_limit(call.depth)
        /\ call.node.kind = "array"
        /\ Recurse(call.node.items, Append(call.path, 0))

\* resolve_with_depth returns a clone of its argument: beyond the limit, or
\* for a value that holds no schema and a $ref that does not resolve
ReturnUnchanged ==
    LET call == last.ns
    IN  /\ last.op = "resolve" /\ ~call.done
        /\ \/ beyond_limit(call.depth)
           \/ call.node.kind = "string"
           \/ call.node.kind = "ref" /\ ~resolves(call.schemas, call.node)
        /\ last' = [last EXCEPT !.res = "Ok", !.ns.done = TRUE]
        /\ UNCHANGED <<disk, wstate, keys, store, now, counters, ghost, server, config, inflight>>

NextResolver ==
    \/ FollowRef
    \/ \E i \in 1..2 : ResolveProperty(i)
    \/ ResolveItems
    \/ ReturnUnchanged

SpecResolver == InitResolver /\ [][NextResolver]_vars

\* ---------------------------------------------------------- tool names
\* (mcp-server: tools/generator.rs, tools/executor.rs).  An integration key is
\* any string: the registry takes the key it is given.
MaxSlugLen == 2     \* characters of an integration key

SlugChars == {"x", "_"}

IntegrationKeys == UNION {[1..n -> SlugChars] : n \in 1..MaxSlugLen}

\* ToolGenerator::generate_tool: the name of the tool of an operation
generate_tool(integration_key, operation) ==
    integration_key \o <<"_">> \o replace(operation.normalized_id, ".", "_")

\* ToolGenerator::generate_tools
generate_tools(integration_key, operations) ==
    [i \in DOMAIN operations |-> generate_tool(integration_key, operations[i])]

NoResolved == [res |-> "", integration_key |-> <<>>, index |-> 0]

\* ToolExecutor::execute up to the operation it finds, in a registry that
\* holds the integration `key` with the namespace `tree`
resolve_tool(key, tree, tool_name) ==
    LET parsed == parse_tool_name(tool_name)
    IN  IF ~parsed.ok THEN [NoResolved EXCEPT !.res = "OperationNotFound"]
        ELSE IF parsed.integration_key # key
        THEN [NoResolved EXCEPT !.res = "IntegrationNotFound",
                                !.integration_key = parsed.integration_key]
        ELSE IF lookup(tree, parsed.operation_path) = NoOperationRef
        THEN [NoResolved EXCEPT !.res = "OperationNotFound",
                                !.integration_key = parsed.integration_key]
        ELSE [res |-> "Ok", integration_key |-> parsed.integration_key,
              index |-> lookup(tree, parsed.operation_path).index]

\* An integration is registered under key with the operations of its spec.
InitToolNames ==
    /\ InitWallet
    /\ \E key \in IntegrationKeys, operations \in OperationLists :
           last = [Start EXCEPT !.op = "register",
                                !.ns = [operations |-> operations, built |-> FALSE,
                                        tree |-> EmptyTree, paths |-> {},
                                        key |-> key, names |-> <<>>, call |-> 0,
                                        resolved |-> NoResolved]]

\* handle_tools_list: the tools of the integration, generated from the stored
\* operations (the namespace was built when the integration was stored)
ListTools ==
    /\ last.op = "register"
    /\ last' = [last EXCEPT !.op = "tools/list",
                            !.ns.built = TRUE,
                            !.ns.tree = build(last.ns.operations),
                            !.ns.paths = paths(build(last.ns.operations)),
                            !.ns.names = generate_tools(last.ns.key,
                                                        last.ns.operations)]
    /\ UNCHANGED <<disk, wstate, keys, store, now, counters, ghost, server, config, inflight>>

\* tools/call with the i-th listed name
CallTool(i) ==
    /\ last.op \in {"tools/list", "tools/call"}
    /\ i \in DOMAIN last.ns.names
    /\ last' = [last EXCEPT !.op = "tools/call",
                            !.ns.call = i,
                            !.ns.resolved = resolve_tool(last.ns.key, last.ns.tree,
                                                         last.ns.names[i])]
    /\ UNCHANGED <<disk, wstate, keys, store, now, counters, ghost, server, config, inflight>>

NextToolNames ==
    \/ ListTools
    \/ \E i \in 1..MaxOps : CallTool(i)

SpecToolNames == InitToolNames /\ [][NextToolNames]_vars

\* ------------------------------------------------------- settings calls
\* Wallet::update_settings (SettingsManager::update)
UpdateSettings(w, s) ==
    /\ settings' = [settings EXCEPT ![w] = s]
    /\ settingsFile' = save_settings(s)
    /\ last' = Call("update_settings", w, "Ok")
    /\ UNCHANGED <<disk, wstate, keys, store, now, counters, ghost, server, inflight>>

\* Wallet::update_otel_settings (SettingsManager::update_otel)
UpdateOtelSettings(w, otel) ==
    LET s == [settings[w] EXCEPT !.otel = otel]
    IN  /\ settings' = [settings EXCEPT ![w] = s]
        /\ settingsFile' = save_settings(s)
        /\ last' = Call("update_otel_settings", w, "Ok")
        /\ UNCHANGED <<disk, wstate, keys, store, now, counters, ghost, server, inflight>>

\* Wallet::set_auto_lock_timeout (SettingsManager::set_auto_lock_timeout)
SetAutoLockTimeout(w, minutes) ==
    LET s == [settings[w] EXCEPT !.auto_lock_timeout_minutes = minutes]
    IN  /\ settings' = [settings EXCEPT ![w] = s]
        /\ settingsFile' = save_settings(s)
        /\ last' = Call("set_auto_lock_timeout", w, "Ok")
        /\ UNCHANGED <<disk, wstate, keys, store, now, counters, ghost, server, inflight>>

\* The settings of the two processes over one data directory.
NextSettings ==
    \/ \E w \in W : NewInstance(w)
    \/ \E w \in W : Reset(w)
    \/ \E w \in W, s \in SettingsValues : UpdateSettings(w, s)
    \/ \E w \in W, otel \in OtelValues : UpdateOtelSettings(w, otel)
    \/ \E w \in W, minutes \in Minutes : SetAutoLockTimeout(w, minutes)

SpecSettings == Init /\ [][NextSettings]_vars

\* ------------------------------------------ storage calls, step by step
\* The calls of one EncryptedFileStorage as tasks that interleave at their
\* awaits and at the system calls of the blocking pool.
\* A task holds the read lock of the cache from save()'s cache.read() until
\* save() returns.
holds_cache_read(w) ==
    \E u \in Tasks : tasks[u].w = w /\ tasks[u].pc \in {"create", "write", "rename"}

\* The call of task t returns res
Return(t, res) ==
    /\ tasks' = [tasks EXCEPT ![t] = Idle]
    /\ last' = [Call(tasks[t].op, tasks[t].w, res) EXCEPT !.id = t, !.pre = "task"]

\* store(key, value) is called
BeginStore(t, w, ek, bytes) ==
    /\ tasks[t].pc = "idle"
    /\ tasks' = [tasks EXCEPT ![t] = [op |-> "store", pc |-> "insert", w |-> w,
                                     key |-> ek, stored |-> RawBytes(bytes),
                                     ino |-> "none"]]
    /\ UNCHANGED <<disk, wstate, keys, store, now, counters, last, ghost, server,
                   config, tmpFile, partial>>

\* store: the master key read, the value encrypted and inserted under the
\* write lock of the cache
StoreInsert(t) ==
    LET w == tasks[t].w
    IN  /\ tasks[t].pc = "insert"
        /\ IF storageKey[w] = NoKey
           THEN /\ Return(t, "WalletLocked")
                /\ UNCHANGED <<cache, dirty>>
           ELSE /\ ~holds_cache_read(w)
                /\ cache' = [cache EXCEPT ![w] =
                                store_entry(cache[w], storageKey[w], tasks[t].key,
                                            tasks[t].stored)]
                /\ dirty' = [dirty EXCEPT ![w] = TRUE]
                /\ tasks' = [tasks EXCEPT ![t].pc = "save"]
                /\ UNCHANGED last
        /\ UNCHANGED <<disk, wstate, keys, registry, now, counters, ghost, server,
                       config, tmpFile, partial>>

\* delete(key) is called
BeginDelete(t, w, ek) ==
    /\ tasks[t].pc = "idle"
    /\ tasks' = [tasks EXCEPT ![t] = [op |-> "delete", pc |-> "remove", w |-> w,
                                     key |-> ek, ino |-> "none"]]
    /\ UNCHANGED <<disk, wstate, keys, store, now, counters, last, ghost, server,
                   config, tmpFile, partial>>

\* delete: the entry removed under the write lock of the cache
DeleteRemove(t) ==
    LET w == tasks[t].w
    IN  /\ tasks[t].pc = "remove"
        /\ ~holds_cache_read(w)
        /\ IF cache[w][tasks[t].key].present
           THEN /\ cache' = [cache EXCEPT ![w][tasks[t].key] = NoEntry]
                /\ dirty' = [dirty EXCEPT ![w] = TRUE]
                /\ tasks' = [tasks EXCEPT ![t].pc = "save"]
                /\ UNCHANGED last
           ELSE /\ Return(t, "Ok")
                /\ UNCHANGED <<cache, dirty>>
        /\ UNCHANGED <<disk, wstate, keys, registry, now, counters, ghost, server,
                       config, tmpFile, partial>>

\* save: cache.read() and the dirty check.  The entries save() copies are
\* those of the cache as long as it runs: it holds the read lock until it
\* returns, and the entries change under the write lock only.
SaveRead(t) ==
    LET w == tasks[t].w
    IN  /\ tasks[t].pc = "save"
        /\ IF ~dirty[w]
           THEN Return(t, "Ok")
           ELSE /\ tasks' = [tasks EXCEPT ![t].pc = "create"]
                /\ UNCHANGED last
        /\ UNCHANGED <<disk, wstate, keys, store, now, counters, ghost, server,
                       config, tmpFile, partial>>

\* save: tokio::fs::write opens wallet.tmp, creating it or truncating the
\* file that is there
SaveCreate(t) ==
    /\ tasks[t].pc = "create"
    /\ tmpFile' = [exists |-> TRUE, complete |-> FALSE]
    /\ tasks' = [tasks EXCEPT ![t].pc = "write", ![t].ino = "tmp"]
    /\ UNCHANGED <<disk, wstate, keys, store, now, counters, last, ghost, server,
                   config, partial>>

\* save: tokio::fs::write writes the contents to the file it opened, which is
\* wallet.tmp, or wallet.json when the file was renamed meanwhile, or no file
\* of the directory when it was replaced after that
SaveWrite(t) ==
    /\ tasks[t].pc = "write"
    /\ tasks' = [tasks EXCEPT ![t].pc = "rename"]
    /\ IF tasks[t].ino = "tmp"
       THEN /\ tmpFile' = [exists |-> TRUE, complete |-> TRUE]
            /\ UNCHANGED <<walletFile, partial>>
       ELSE IF tasks[t].ino = "wallet"
       THEN /\ walletFile' = [exists |-> TRUE, entries |-> cache[tasks[t].w]]
            /\ partial' = FALSE
            /\ UNCHANGED tmpFile
       ELSE UNCHANGED <<walletFile, tmpFile, partial>>
    /\ UNCHANGED <<saltFile, verifyFile, sessionFile, wstate, keys, store, now,
                   counters, last, ghost, server, config>>

\* save: tokio::fs::rename of wallet.tmp to wallet.json, and the return of the
\* call
SaveRename(t) ==
    /\ tasks[t].pc = "rename"
    /\ IF ~tmpFile.exists
       THEN /\ Return(t, "Io")
            /\ UNCHANGED <<walletFile, tmpFile, partial>>
       ELSE /\ walletFile' = [exists |-> TRUE,
                               entries |-> IF tmpFile.complete
                                           THEN cache[tasks[t].w]
                                           ELSE EmptyEntries]
            /\ partial' = ~tmpFile.complete
            /\ tmpFile' = NoTmpFile
            /\ tasks' = [u \in Tasks |->
                           IF u = t THEN Idle
                           ELSE IF tasks[u].pc = "write" /\ tasks[u].ino = "tmp"
                           THEN [tasks[u] EXCEPT !.ino = "wallet"]
                           ELSE IF tasks[u].pc = "write" /\ tasks[u].ino = "wallet"
                           THEN [tasks[u] EXCEPT !.ino = "gone"]
                           ELSE tasks[u]]
            /\ last' = [Call(tasks[t].op, tasks[t].w, "Ok") EXCEPT
                           !.id = t, !.pre = "task"]
    /\ UNCHANGED <<saltFile, verifyFile, sessionFile, wstate, keys, store, now,
                   counters, ghost, server, config>>

\* One storage with its key set, and store and delete calls on it that
\* overlap.
NextTasks ==
    \/ SetMasterKey(1, derive_key("a", 1))
    \/ \E t \in Tasks, ek \in StorageKeys : BeginStore(t, 1, ek, <<65>>)
    \/ \E t \in Tasks, ek \in StorageKeys : BeginDelete(t, 1, ek)
    \/ \E t \in Tasks : StoreInsert(t)
    \/ \E t \in Tasks : DeleteRemove(t)
    \/ \E t \in Tasks : SaveRead(t)
    \/ \E t \in Tasks : SaveCreate(t)
    \/ \E t \in Tasks : SaveWrite(t)
    \/ \E t \in Tasks : SaveRename(t)

SpecTasks == Init /\ [][NextTasks]_vars

\* ----------------------------------------- registry calls, step by step
\* A task holds a read guard of the integrations map (set_status, from its
\* re-read until save_integration has returned): the write lock waits for it.
holds_map_read(w) ==
    \E u \in Tasks : /\ tasks[u].w = w /\ tasks[u].op = "set_status"
                     /\ tasks[u].pc = "persist"

\* set_credential(key, credential_id) is called
BeginSetCredential(t, w, slug, credential_id) ==
    /\ tasks[t].pc = "idle"
    /\ tasks' = [tasks EXCEPT ![t] = [op |-> "set_credential", pc |-> "mutate",
                                     w |-> w, val |-> slug, id |-> credential_id,
                                     stored |-> NoStored]]
    /\ UNCHANGED <<disk, wstate, keys, store, now, counters, last, ghost, server,
                   config, tmpFile, partial>>

\* set_credential: under the write lock of the map, the entry changed and
\* cloned; the lock is dropped before save_integration
SetCredentialMutate(t) ==
    LET w == tasks[t].w
        slug == tasks[t].val
        old == registry[w][slug]
        new == [old EXCEPT !.credential_id = tasks[t].id, !.status = "active",
                           !.updated_at = now]
    IN  /\ tasks[t].op = "set_credential" /\ tasks[t].pc = "mutate"
        /\ ~holds_map_read(w)
        /\ IF ~old.present
           THEN /\ Return(t, "Ok")
                /\ UNCHANGED registry
           ELSE /\ registry' = [registry EXCEPT ![w][slug] = new]
                /\ tasks' = [tasks EXCEPT ![t].pc = "persist",
                                          ![t].stored = StoredIntegration(new)]
                /\ UNCHANGED last
        /\ UNCHANGED <<disk, wstate, keys, cache, dirty, now, counters, ghost,
                       server, config, tmpFile, partial>>

\* set_credential: save_integration of the clone, and the return
SetCredentialPersist(t) ==
    LET w == tasks[t].w
    IN  /\ tasks[t].op = "set_credential" /\ tasks[t].pc = "persist"
        /\ IF storageKey[w] = NoKey
           THEN /\ Return(t, "WalletLocked")
                /\ UNCHANGED <<walletFile, cache, dirty>>
           ELSE /\ StoreAndSave(w, IntegKey(tasks[t].val), tasks[t].stored)
                /\ Return(t, "Ok")
        /\ UNCHANGED <<saltFile, verifyFile, sessionFile, wstate, keys, registry,
                       now, counters, ghost, server, config, tmpFile, partial>>

\* remove(key) is called
BeginRemove(t, w, slug) ==
    /\ tasks[t].pc = "idle"
    /\ tasks' = [tasks EXCEPT ![t] = [op |-> "remove", pc |-> "delete", w |-> w,
                                     val |-> slug]]
    /\ UNCHANGED <<disk, wstate, keys, store, now, counters, last, ghost, server,
                   config, tmpFile, partial>>

\* remove: storage.delete of the entry
RemoveDelete(t) ==
    LET w == tasks[t].w
        ek == IntegKey(tasks[t].val)
    IN  /\ tasks[t].pc = "delete"
        /\ IF cache[w][ek].present
           THEN LET entries == [cache[w] EXCEPT ![ek] = NoEntry]
                IN  /\ cache' = [cache EXCEPT ![w] = entries]
                    /\ dirty' = [dirty EXCEPT ![w] = TRUE]
                    /\ walletFile' = save(entries, TRUE)
           ELSE UNCHANGED <<walletFile, cache, dirty>>
        /\ tasks' = [tasks EXCEPT ![t].pc = "uncache"]
        /\ UNCHANGED <<saltFile, verifyFile, sessionFile, wstate, keys, registry,
                       now, counters, last, ghost, server, config, tmpFile,
                       partial>>

\* remove: under the write lock of the map, the entry removed; the return
RemoveUncache(t) ==
    /\ tasks[t].pc = "uncache"
    /\ ~holds_map_read(tasks[t].w)
    /\ registry' = [registry EXCEPT ![tasks[t].w][tasks[t].val] = NoIntegration]
    /\ Return(t, "Ok")
    /\ UNCHANGED <<disk, wstate, keys, cache, dirty, now, counters, ghost, server,
                   config, tmpFile, partial>>

\* The registry of an unlocked wallet with one integration, and set_credential
\* and remove calls on it that overlap.
NextRegistryTasks ==
    \/ Initialize(1, "a")
    \/ AddFirstIntegration(1, 1)
    \/ AddApiKey(1, "s1")
    \/ \E t \in Tasks, id \in CredIds : BeginSetCredential(t, 1, "x", id)
    \/ \E t \in Tasks : BeginRemove(t, 1, "x")
    \/ \E t \in Tasks : SetCredentialMutate(t)
    \/ \E t \in Tasks : SetCredentialPersist(t)
    \/ \E t \in Tasks : RemoveDelete(t)
    \/ \E t \in Tasks : RemoveUncache(t)
    \/ Tick

SpecRegistryTasks == Init /\ [][NextRegistryTasks]_vars

\* set_status(key, status) is called
BeginSetStatus(t, w, slug, status) ==
    /\ tasks[t].pc = "idle"
    /\ tasks' = [tasks EXCEPT ![t] = [op |-> "set_status", pc |-> "mutate",
                                     w |-> w, val |-> slug, status |-> status,
                                     guards |-> {}]]
    /\ UNCHANGED <<disk, wstate, keys, store, now, counters, last, ghost, server,
                   config, tmpFile, partial>>

\* set_status: under the write lock of the map, the status and updated_at of
\* the entry changed; the lock is dropped
SetStatusMutate(t) ==
    LET w == tasks[t].w
        slug == tasks[t].val
        old == registry[w][slug]
    IN  /\ tasks[t].op = "set_status" /\ tasks[t].pc = "mutate"
        /\ ~holds_map_read(w)
        /\ IF ~old.present
           THEN /\ Return(t, "Ok")
                /\ UNCHANGED registry
           ELSE /\ registry' = [registry EXCEPT ![w][slug] =
                                   [old EXCEPT !.status = tasks[t].status,
                                               !.updated_at = now]]
                /\ tasks' = [tasks EXCEPT ![t].pc = "reread"]
                /\ UNCHANGED last
        /\ UNCHANGED <<disk, wstate, keys, cache, dirty, now, counters, ghost,
                       server, config, tmpFile, partial>>

\* set_status: the map read again under a new read lock, get(key).unwrap(),
\* which panics on None.  The guard is a temporary of the statement that
\* awaits save_integration, so it lives until that has returned.
SetStatusReread(t) ==
    LET w == tasks[t].w
        slug == tasks[t].val
    IN  /\ tasks[t].pc = "reread"
        /\ IF ~registry[w][slug].present
           THEN Return(t, "panic")
           ELSE /\ tasks' = [tasks EXCEPT ![t].pc = "persist",
                                          ![t].guards = {"integrations"}]
                /\ UNCHANGED last
        /\ UNCHANGED <<disk, wstate, keys, store, now, counters, ghost, server,
                       config, tmpFile, partial>>

\* set_status: save_integration of the entry the guard refers to, and the
\* return
SetStatusPersist(t) ==
    LET w == tasks[t].w
        slug == tasks[t].val
    IN  /\ tasks[t].op = "set_status" /\ tasks[t].pc = "persist"
        /\ IF storageKey[w] = NoKey
           THEN /\ Return(t, "WalletLocked")
                /\ UNCHANGED <<walletFile, cache, dirty>>
           ELSE /\ StoreAndSave(w, IntegKey(slug), StoredIntegration(registry[w][slug]))
                /\ Return(t, "Ok")
        /\ UNCHANGED <<saltFile, verifyFile, sessionFile, wstate, keys, registry,
                       now, counters, ghost, server, config, tmpFile, partial>>

\* The registry of an unlocked wallet with one integration, and set_status
\* and remove calls on it that overlap.
NextStatusTasks ==
    \/ Initialize(1, "a")
    \/ AddFirstIntegration(1, 1)
    \/ \E t \in Tasks, status \in Statuses : BeginSetStatus(t, 1, "x", status)
    \/ \E t \in Tasks : BeginRemove(t, 1, "x")
    \/ \E t \in Tasks : SetStatusMutate(t)
    \/ \E t \in Tasks : SetStatusReread(t)
    \/ \E t \in Tasks : SetStatusPersist(t)
    \/ \E t \in Tasks : RemoveDelete(t)
    \/ \E t \in Tasks : RemoveUncache(t)
    \/ Tick

SpecStatusTasks == Init /\ [][NextStatusTasks]_vars

\* ------------------------------------------------ tool calls, in steps
\* ToolExecutor::execute up to drop(wallet): under the read lock of the
\* wallet the checks, the lookup and get_decrypted with its update_last_used.
\* A call that fails there returns; the others hold the decrypted api_key and
\* have the request still to send.
ToolCallDecrypt(t, w, tool_name, arguments, http) ==
    LET execution == execute(w, tool_name, arguments, http)
    IN  /\ tasks[t].pc = "idle"
        /\ IF execution.credential_id = 0
           THEN /\ tasks' = [tasks EXCEPT ![t] = Idle]
                /\ last' = [Call("execute", w, execution.res) EXCEPT
                               !.id = t, !.pre = "task"]
                /\ UNCHANGED <<walletFile, cache, dirty>>
           ELSE LET ek == CredKey(execution.credential_id)
                    stored == retrieve(cache[w], storageKey[w], ek).pt
                IN  /\ StoreAndSave(w, ek, StoredCredential(stored.enc, TRUE))
                    /\ tasks' = [tasks EXCEPT ![t] =
                                    [op |-> "execute", pc |-> "send", w |-> w,
                                     exec |-> execution]]
                    /\ UNCHANGED last
        /\ UNCHANGED <<saltFile, verifyFile, sessionFile, wstate, keys, registry,
                       now, counters, ghost, server, config, tmpFile, partial>>

\* ToolExecutor::execute after drop(wallet): execute_operation sends the
\* request with the api_key it was given, and the call returns
ToolCallSend(t) ==
    /\ tasks[t].pc = "send"
    /\ tasks' = [tasks EXCEPT ![t] = Idle]
    /\ last' = [Call("execute", tasks[t].w, tasks[t].exec.res) EXCEPT
                   !.id = t, !.pre = "task", !.request = tasks[t].exec.request]
    /\ UNCHANGED <<disk, wstate, keys, store, now, counters, ghost, server,
                   config, tmpFile, partial>>

\* The future of a tool call dropped at its await of execute_operation (the
\* client cancelled the request): nothing is sent
ToolCallAbandon(t) ==
    /\ tasks[t].pc = "send"
    /\ tasks' = [tasks EXCEPT ![t] = Idle]
    /\ last' = [Call("execute", tasks[t].w, "abandoned") EXCEPT
                   !.id = t, !.pre = "task"]
    /\ UNCHANGED <<disk, wstate, keys, store, now, counters, ghost, server,
                   config, tmpFile, partial>>

\* The tool named x_a_get called with an id
GetCall == [tool_name |-> <<"x", "_", "a", "_", "get">>,
            arguments |-> [kind |-> "object",
                           map |-> {<<"id", [type |-> "string", text |-> "v"]>>}]]

\* The desktop application (instance 1) and the server process (instance 2,
\* unlocked by the session) over one data directory, with a tool call of
\* either wallet (task w serves wallet w) that overlaps the wallet operations.
NextExecutor ==
    \/ Initialize(1, "a")
    \/ AddApiKey(1, "s1")
    \/ AddFirstIntegration(1, 1)
    \/ \E id \in CredIds : SetCredential(1, "x", id)
    \/ AddIntegration(1, "y", 1)
    \/ CreateSession(1, 0)
    \/ Lock(1)
    \/ NewInstance(2)
    \/ UnlockWithSession(2)
    \/ \E w \in W :
           ToolCallDecrypt(w, w, GetCall.tool_name, GetCall.arguments, "2xx")
    \/ \E t \in Tasks : ToolCallSend(t)
    \/ \E t \in Tasks : ToolCallAbandon(t)

SpecExecutor == Init /\ [][NextExecutor]_vars

\* --------------------------------------- credential calls, step by step
\* get_decrypted(id) is called
BeginGetDecrypted(t, w, id) ==
    /\ tasks[t].pc = "idle"
    /\ tasks' = [tasks EXCEPT ![t] = [op |-> "get_decrypted", pc |-> "retrieve",
                                     w |-> w, id |-> id, val |-> "",
                                     stored |-> NoStored, guards |-> {}]]
    /\ UNCHANGED <<disk, wstate, keys, store, now, counters, last, ghost, server,
                   config, tmpFile, partial>>

\* get_decrypted: the key read, storage.retrieve and decrypt_string.  The read
\* guard of master_key taken for the key lives until the call returns.
GetRetrieve(t) ==
    LET got == get_decrypted(tasks[t].w, tasks[t].id)
    IN  /\ tasks[t].pc = "retrieve"
        /\ IF got.res # "Ok"
           THEN Return(t, got.res)
           ELSE /\ tasks' = [tasks EXCEPT ![t].pc = "touch", ![t].val = got.val,
                                          ![t].guards = {"master_key"}]
                /\ UNCHANGED last
        /\ UNCHANGED <<disk, wstate, keys, store, now, counters, ghost, server,
                       config, tmpFile, partial>>

\* update_last_used: storage.retrieve of the credential and the new
\* last_used_at set in the copy
TouchRetrieve(t) ==
    LET w == tasks[t].w
        r == retrieve(cache[w], storageKey[w], CredKey(tasks[t].id))
    IN  /\ tasks[t].pc = "touch"
        /\ IF r.res = "Some"
           THEN /\ tasks' = [tasks EXCEPT ![t].pc = "store",
                                 ![t].stored = StoredCredential(r.pt.enc, TRUE)]
                /\ UNCHANGED last
           ELSE Return(t, IF r.res = "None" THEN "Ok" ELSE r.res)
        /\ UNCHANGED <<disk, wstate, keys, store, now, counters, ghost, server,
                       config, tmpFile, partial>>

\* update_last_used: save_credential of the copy, and the return of
\* get_decrypted
TouchStore(t) ==
    LET w == tasks[t].w
    IN  /\ tasks[t].pc = "store"
        /\ IF storageKey[w] = NoKey
           THEN /\ Return(t, "WalletLocked")
                /\ UNCHANGED <<walletFile, cache, dirty>>
           ELSE /\ StoreAndSave(w, CredKey(tasks[t].id), tasks[t].stored)
                /\ Return(t, "Ok")
        /\ UNCHANGED <<saltFile, verifyFile, sessionFile, wstate, keys, registry,
                       now, counters, ghost, server, config, tmpFile, partial>>

\* The credentials of an unlocked wallet, with get_decrypted calls that
\* overlap update_value and delete.
NextCredentialTasks ==
    \/ Initialize(1, "a")
    \/ AddApiKey(1, "s1")
    \/ \E id \in CredIds, s \in NewSecrets : UpdateValue(1, id, s)
    \/ \E id \in CredIds : DeleteCredential(1, id)
    \/ \E t \in Tasks, id \in CredIds : BeginGetDecrypted(t, 1, id)
    \/ \E t \in Tasks : GetRetrieve(t)
    \/ \E t \in Tasks : TouchRetrieve(t)
    \/ \E t \in Tasks : TouchStore(t)

SpecCredentialTasks == Init /\ [][NextCredentialTasks]_vars

\* update_last_used: save_credential calls storage.store, which inserts the
\* copy under the write lock of the cache and then awaits save()
TouchInsert(t) ==
    LET w == tasks[t].w
    IN  /\ tasks[t].pc = "store"
        /\ IF storageKey[w] = NoKey
           THEN /\ Return(t, "WalletLocked")
                /\ UNCHANGED <<cache, dirty>>
           ELSE /\ ~holds_cache_read(w)
                /\ cache' = [cache EXCEPT ![w] =
                                store_entry(cache[w], storageKey[w],
                                            CredKey(tasks[t].id), tasks[t].stored)]
                /\ dirty' = [dirty EXCEPT ![w] = TRUE]
                /\ tasks' = [tasks EXCEPT ![t] =
                                [op |-> "get_decrypted", pc |-> "save", w |-> w,
                                 id |-> tasks[t].id, val |-> tasks[t].val,
                                 ino |-> "none", guards |-> tasks[t].guards]]
                /\ UNCHANGED last
        /\ UNCHANGED <<disk, wstate, keys, registry, now, counters, ghost, server,
                       config, tmpFile, partial>>

\* get_decrypted calls that overlap on one unlocked wallet (tool calls of the
\* HTTP transport hold the wallet's read lock together), each with its
\* last_used_at touch and the save() of it.
NextTouch ==
    \/ Initialize(1, "a")
    \/ AddApiKey(1, "s1")
    \/ \E t \in Tasks, id \in CredIds : BeginGetDecrypted(t, 1, id)
    \/ \E t \in Tasks : GetRetrieve(t)
    \/ \E t \in Tasks : TouchRetrieve(t)
    \/ \E t \in Tasks : TouchInsert(t)
    \/ \E t \in Tasks : SaveRead(t)
    \/ \E t \in Tasks : SaveCreate(t)
    \/ \E t \in Tasks : SaveWrite(t)
    \/ \E t \in Tasks : SaveRename(t)

SpecTouch == Init /\ [][NextTouch]_vars

\* The lock guards of the registry and of the credential manager that task t
\* holds (set_credential and remove hold none outside a step)
guards_held(t) ==
    IF tasks[t].op \in {"get_decrypted", "set_status"} THEN tasks[t].guards ELSE {}

\* Task t is at an await of a storage operation (retrieve, store with its
\* save, delete) inside an operation of the registry or the credential manager
awaits_storage(t) ==
    \/ tasks[t].op = "get_decrypted"
           /\ tasks[t].pc \in {"touch", "store", "save", "create", "write", "rename"}
    \/ tasks[t].op \in {"set_status", "set_credential"} /\ tasks[t].pc = "persist"
    \/ tasks[t].op = "remove" /\ tasks[t].pc = "delete"

\* The operations of the registry and of the credential manager of one
\* unlocked wallet, as tasks.
NextGuards ==
    \/ Initialize(1, "a")
    \/ AddApiKey(1, "s1")
    \/ AddFirstIntegration(1, 1)
    \/ \E t \in Tasks, id \in CredIds : BeginGetDecrypted(t, 1, id)
    \/ \E t \in Tasks : GetRetrieve(t)
    \/ \E t \in Tasks : TouchRetrieve(t)
    \/ \E t \in Tasks : TouchStore(t)
    \/ \E t \in Tasks : BeginSetStatus(t, 1, "x", "disabled")
    \/ \E t \in Tasks : SetStatusMutate(t)
    \/ \E t \in Tasks : SetStatusReread(t)
    \/ \E t \in Tasks : SetStatusPersist(t)
    \/ \E t \in Tasks, id \in CredIds : BeginSetCredential(t, 1, "x", id)
    \/ \E t \in Tasks : SetCredentialMutate(t)
    \/ \E t \in Tasks : SetCredentialPersist(t)
    \/ \E t \in Tasks : BeginRemove(t, 1, "x")
    \/ \E t \in Tasks : RemoveDelete(t)
    \/ \E t \in Tasks : RemoveUncache(t)

SpecGuards == Init /\ [][NextGuards]_vars

\* ------------------------------------------------------------ properties
AllKeysAbsent(w) ==
    facadeKey[w] = NoKey /\ storageKey[w] = NoKey /\ credKey[w] = NoKey

\* Every credential added on an unlocked wallet and neither updated nor
\* deleted since decrypts in instance w to the secret it was added with.
DecryptsAll(w) ==
    \A id \in CredIds :
        truth[id] # "" => get_decrypted(w, id) = [res |-> "Ok", val |-> truth[id]]

\* C1: after lock() has returned, no get_decrypted of that wallet succeeds
\* until an unlock, an unlock_with_session (or an initialize) has succeeded,
\* whatever other operations are called in between.
C1_NoDecryptAfterLock ==
    (last.op = "get_decrypted" /\ lockedSince[last.w]) => last.res # "Ok"

\* C2: master-key coherence.  In every state between facade operations the
\* keys of storage, credential manager and facade are all present and equal
\* when the wallet is Unlocked, and all absent when it is Locked or
\* NotInitialized.
C2_KeyCoherence ==
    \A w \in W :
        IF wstate[w] = "Unlocked"
        THEN /\ facadeKey[w] # NoKey
             /\ storageKey[w] = facadeKey[w]
             /\ credKey[w] = facadeKey[w]
        ELSE AllKeysAbsent(w)

\* C3: after change_password returns Ok on an unlocked wallet every entry
\* stored before the call can be retrieved under the new key, and every
\* credential decrypts to its original secret.
C3_ReencryptedAfterChangePassword ==
    (last.op = "change_password" /\ last.res = "Ok" /\ last.from = "Unlocked") =>
        /\ \A ek \in EntryKeys :
               cache[last.w][ek].present =>
                   retrieve(cache[last.w], storageKey[last.w], ek).res = "Some"
        /\ DecryptsAll(last.w)

\* C4: the wallet state changes only NotInitialized -> Unlocked by a
\* successful initialize, Locked -> Unlocked by a successful unlock or
\* unlock_with_session, Unlocked -> Locked by lock and Unlocked ->
\* NotInitialized by reset; no other call changes it and a failed call leaves
\* it as it was.
C4_StateMachine ==
    (last.op \notin {"start", "new"} /\ wstate[last.w] # last.from) =>
        /\ last.res = "Ok"
        /\ \/ /\ last.from = "NotInitialized" /\ wstate[last.w] = "Unlocked"
              /\ last.op = "initialize"
           \/ /\ last.from = "Locked" /\ wstate[last.w] = "Unlocked"
              /\ last.op \in {"unlock", "unlock_with_session"}
           \/ /\ last.from = "Unlocked" /\ wstate[last.w] = "Locked"
              /\ last.op = "lock"
           \/ /\ last.from = "Unlocked" /\ wstate[last.w] = "NotInitialized"
              /\ last.op = "reset"

\* C5: once unlock(correct password) has succeeded on a Locked wallet (the
\* same instance after lock, or a new instance over the data directory),
\* get_decrypted returns, for every credential that was added on an unlocked
\* wallet and not updated or deleted since, exactly the secret it was added
\* with.
C5_RoundTripAfterUnlock ==
    (last.op = "unlock" /\ last.res = "Ok" /\ last.from = "Locked") =>
        DecryptsAll(last.w)

\* C6: session handoff.  create_session on an Unlocked wallet followed,
\* before the session expires, by unlock_with_session in a new instance over
\* the same data directory succeeds, leaves that instance Unlocked, and every
\* stored credential decrypts there to its original value.
C6_SessionHandoff ==
    (/\ last.op = "unlock_with_session" /\ last.pre = "handoff"
     /\ last.from = "Locked" /\ last.sess = "valid"
     /\ sessionFile.exists /\ ~is_expired(sessionFile, now)) =>
        /\ last.res = "Ok"
        /\ wstate[last.w] = "Unlocked"
        /\ DecryptsAll(last.w)

\* C7: on a Locked wallet unlock with a password other than the current one
\* returns InvalidPassword, leaves the state Locked and leaves no master key
\* in storage or in the credential manager; unlock with the current password
\* succeeds.
C7_WrongPassword ==
    (last.op = "unlock" /\ last.from = "Locked" /\ password # "") =>
        IF last.pw # password
        THEN /\ last.res = "InvalidPassword"
             /\ wstate[last.w] = "Locked"
             /\ storageKey[last.w] = NoKey
             /\ credKey[last.w] = NoKey
        ELSE last.res = "Ok" /\ wstate[last.w] = "Unlocked"

C9_ExpiredSession ==
    /\ (last.op = "has_valid_session" /\ last.sess = "expired") =>
           (last.res = "false" /\ ~sessionFile.exists)
    /\ (last.op = "unlock_with_session" /\ last.from = "Locked"
        /\ last.sess = "expired") =>
           /\ last.res = "InvalidSession"
           /\ ~sessionFile.exists
           /\ wstate[last.w] = "Locked"
           /\ AllKeysAbsent(last.w)
    /\ (last.op = "has_valid_session" /\ last.sess = "valid") =>
           (last.res = "true" /\ sessionFile.exists)
    /\ (last.op = "unlock_with_session" /\ last.from = "Locked"
        /\ last.sess = "valid") => sessionFile.exists

\* C10: after reset() returns Ok the wallet is NotInitialized in memory and
\* on disk: state() is NotInitialized, storage.is_initialized() is false, so
\* a new instance over the data directory starts NotInitialized, and no
\* password verifies against what is left on disk.
C10_ResetUninitializes ==
    (last.op = "reset" /\ last.res = "Ok") =>
        /\ wstate[last.w] = "NotInitialized"
        /\ ~is_initialized
        /\ \A pw \in Passwords : saltFile = 0 \/ ~verify_key(derive_key(pw, saltFile))

\* IntegrationRegistry::list in instance w (the slugs of what it returns)
integrations_list(w) == {s \in Slugs : registry[w][s].present}

\* CredentialManager::list in instance w (the ids of what it returns)
credentials_list(w) == {id \in CredIds : cache[w][CredKey(id)].present}

\* C11: reset() deletes all data.  After reset() returns, and after the
\* initialize that follows it, integrations.list() is empty (so nothing from
\* before the reset can be looked up or listed as a tool) and the credential
\* list is empty.
C11_ResetDeletesAll ==
    (last.op \in {"reset", "initialize"} /\ last.res = "Ok") =>
        /\ integrations_list(last.w) = {}
        /\ credentials_list(last.w) = {}

\* C12: after a successful change_password(old, new) followed by lock(),
\* unlock with a password other than the new one (the old one) fails with
\* InvalidPassword and leaves the wallet Locked, and unlock with the new
\* password succeeds and leaves it Unlocked.
C12_UnlockAfterChangePassword ==
    (last.op = "unlock" /\ last.pre = "password_changed") =>
        IF last.pw # password
        THEN last.res = "InvalidPassword" /\ wstate[last.w] = "Locked"
        ELSE last.res = "Ok" /\ wstate[last.w] = "Unlocked"

\* C18: a successful sync(slug) leaves the integration's id, created_at,
\* credential_id, status, key and spec_url unchanged, replaces operations,
\* namespace, operation_count, server_url, last_synced_at and updated_at by
\* those of the re-fetched spec, and leaves every other integration of the
\* registry unchanged.
C18_SyncFrame ==
    [][(/\ last'.op = "sync" /\ last'.res = "Ok"
        /\ Sync(last'.w, last'.val, last'.doc)) =>
              LET w == last'.w
                  slug == last'.val
                  old == registry[w][slug]
                  new == registry'[w][slug]
                  fresh == from_spec(slug, last'.doc, 0, now)
              IN  /\ new.id = old.id /\ new.created_at = old.created_at
                  /\ new.credential_id = old.credential_id
                  /\ new.status = old.status
                  /\ new.key = old.key /\ new.spec_url = old.spec_url
                  /\ new.operations = fresh.operations
                  /\ new.namespace = fresh.namespace
                  /\ new.operation_count = fresh.operation_count
                  /\ new.server_url = fresh.server_url
                  /\ new.last_synced_at = now /\ new.updated_at = now
                  /\ \A other \in Slugs \ {slug} :
                         registry'[w][other] = registry[w][other]]_vars

\* C18 witness: sync has succeeded on an integration with a bound credential,
\* later than it was created, with another integration in the registry.
C18_Witness ==
    /\ last.op = "sync" /\ last.res = "Ok" /\ last.val = "x" /\ last.doc = 2
    /\ registry[1]["x"].credential_id # 0
    /\ registry[1]["x"].created_at < registry[1]["x"].last_synced_at
    /\ registry[1]["y"].present

\* C19: whenever sync(slug) returns an error, the cached StoredIntegration of
\* that slug and every other cached integration are what they were before
\* the call.
C19_FailedSyncKeepsCache ==
    [][(/\ last'.op = "sync" /\ last'.res # "Ok"
        /\ Sync(last'.w, last'.val, last'.doc)) =>
          registry'[last'.w] = registry[last'.w]]_vars

\* What retrieve returns for every key: the map the storage object shows
Observed(entries, k) == [ek \in EntryKeys |-> retrieve(entries, k, ek)]

\* retrieve returning the bytes it was given
SomeBytes(bytes) == [res |-> "Some", pt |-> RawBytes(bytes)]

\* retrieve returning None
NoBytes == [res |-> "None", pt |-> NoStored]

\* C16: with a master key set the storage is a map from key to bytes:
\* store(k, v) makes retrieve(k) return exactly v, for every byte string v,
\* delete(k) makes it return None, clear() makes every key return None, and
\* each leaves the other keys as they were; exists(k) agrees with retrieve(k)
\* being present; list_keys(p) is exactly the present keys that start with p.
C16_StorageIsMap ==
    [][storageKey[last'.w] # NoKey =>
          LET w == last'.w
              ek == last'.key
              before == Observed(cache[w], storageKey[w])
              after == Observed(cache'[w], storageKey'[w])
          IN  /\ (last'.op = "store" /\ StorageStore(w, ek, last'.bytes)) =>
                     /\ last'.res = "Ok"
                     /\ after = [before EXCEPT ![ek] = SomeBytes(last'.bytes)]
              /\ (last'.op = "delete" /\ StorageDelete(w, ek)) =>
                     /\ last'.res = "Ok"
                     /\ after = [before EXCEPT ![ek] = NoBytes]
              /\ (last'.op = "clear" /\ StorageClear(w)) =>
                     /\ last'.res = "Ok"
                     /\ after = [k \in EntryKeys |-> NoBytes]
              /\ (last'.op = "exists" /\ StorageExists(w, ek)) =>
                     (last'.res = "true" <=> before[ek].res = "Some")
              /\ (last'.op = "list_keys" /\ StorageListKeys(w, last'.val)) =>
                     last'.found = {k \in EntryKeys : /\ before[k].res = "Some"
                                                      /\ starts_with(k, last'.val)}]_vars

\* C17: after store, delete or clear has returned Ok, the entries of
\* wallet.json are the entries of the cache of the storage object that was
\* called, so a new storage object with the same key that calls load() shows
\* the same map.
C17_WriteThrough ==
    (last.op \in {"store", "delete", "clear"} /\ last.res = "Ok") =>
        /\ load(EmptyEntries) = cache[last.w]
        /\ Observed(load(EmptyEntries), storageKey[last.w])
               = Observed(cache[last.w], storageKey[last.w])

C13_ToolFailureIsResult ==
    (/\ last.op \in Transports /\ is_request(last.msg)
     /\ last.msg.method = "tools/call") =>
        /\ Len(last.reply) = 1
        /\ IF last.msg.params.shape = "ok"
           THEN /\ last.reply[1].has_result /\ ~last.reply[1].has_error
                /\ last.res # "Ok" => last.reply[1].result = ToolCallResult_error
           ELSE /\ last.reply[1].has_error /\ ~last.reply[1].has_result
                /\ last.reply[1].code = -32602

\* C13 witness: a tool call reached the API, which answered with a non-2xx
\* status, and the reply is a result with isError = true.
C13_Witness ==
    /\ last.op = "stdio" /\ last.msg.method = "tools/call" /\ last.msg.id = "7"
    /\ last.res = "HttpStatus" /\ last.request.sent
    /\ last.reply = <<response("7", ToolCallResult_error)>>

\* C14: every request other than initialized gets exactly one response,
\* with the id of the request and exactly one of result and error; a request
\* whose method is not initialize, ping, tools/list or tools/call gets error
\* -32601.
C14_OneResponsePerRequest ==
    (/\ last.op \in Transports /\ is_request(last.msg)
     /\ last.msg.method # "initialized") =>
        /\ Len(last.reply) = 1
        /\ last.reply[1].id = last.msg.id
        /\ last.reply[1].has_result # last.reply[1].has_error
        /\ last.msg.method \notin {"initialize", "ping", "tools/list", "tools/call"} =>
               last.reply[1].has_error /\ last.reply[1].code = -32601

\* C14 witness: a request with an unknown method was answered with -32601
\* under its id.
C14_Witness ==
    /\ last.op = "http" /\ last.msg.method = "resources/list" /\ last.msg.id = "7"
    /\ last.reply = <<error_response("7", -32601)>>

\* C15: a notification (a method and no id, or the initialized method) and a
\* response message get no JSON-RPC response and change neither the handler
\* nor the wallet, on stdio and on POST /mcp.
C15_NotificationsAreSilent ==
    [][(/\ last'.op \in Transports /\ last'.msg.json
        /\ \/ is_notification(last'.msg)
           \/ last'.msg.method = "initialized"
           \/ is_response(last'.msg)) =>
           /\ last'.reply = <<>>
           /\ UNCHANGED <<disk, wstate, keys, store, counters, server, config, inflight>>]_vars

\* C21: for every list of operations and every operation op of it (two
\* operations may have the same normalized_id), build(ops).lookup(
\* op.normalized_id) is an OperationRef whose index is in range and ops[index]
\* is that same operation.
C21_LookupFindsOperation ==
    last.ns.built =>
        \A i \in DOMAIN last.ns.operations :
            LET ops == last.ns.operations
                ref == lookup(last.ns.tree, ops[i].normalized_id)
            IN  /\ ref # NoOperationRef
                /\ ref.index \in DOMAIN ops
                /\ ops[ref.index] = ops[i]

\* C22: paths() of the tree built from a list of operations contains the
\* normalized_id of every operation of the list, ids with an empty segment
\* included.
C22_PathsHoldEveryId ==
    last.ns.built =>
        \A i \in DOMAIN last.ns.operations :
            last.ns.operations[i].normalized_id \in last.ns.paths

\* C23: after reset() the settings get_settings() returns are the defaults of
\* a fresh installation (version 1, auto-lock after 15 minutes, OpenTelemetry
\* disabled with traces and metrics exported), the values a new settings
\* manager loads from the data directory, which has no settings file now.
C23_ResetGivesFreshSettings ==
    [][(last'.op = "reset" /\ last'.res = "Ok" /\ Reset(last'.w)) =>
           /\ ~settingsFile'.exists
           /\ settings'[last'.w] = load_from_file(settingsFile')
           /\ settings'[last'.w].version = 1
           /\ settings'[last'.w].auto_lock_timeout_minutes = 15
           /\ ~settings'[last'.w].otel.enabled
           /\ settings'[last'.w].otel.export_traces
           /\ settings'[last'.w].otel.export_metrics]_vars

\* C24: whenever unlock or unlock_with_session returns an error, whatever
\* the cause, the wallet is Locked and no master key is left in the storage,
\* in the credential manager or in the facade.  The calls considered are those
\* made on a Locked wallet that holds no key.
C24_FailedUnlockLeavesNoKey ==
    [][(/\ last'.op \in {"unlock", "unlock_with_session"}
        /\ last'.res # "Ok"
        /\ wstate[last'.w] = "Locked"
        /\ AllKeysAbsent(last'.w)
        /\ Unlock(last'.w, last'.pw) \/ UnlockWithSession(last'.w)) =>
              /\ wstate'[last'.w] = "Locked"
              /\ facadeKey'[last'.w] = NoKey
              /\ storageKey'[last'.w] = NoKey
              /\ credKey'[last'.w] = NoKey]_vars

\* C25: store and delete calls that overlap on one storage that has its key
\* all return Ok; wallet.json is never a file whose write has not finished;
\* and once they have all returned wallet.json holds the entries of the cache,
\* the effects of all of them.
C25_OverlappingSavesAllSucceed ==
    /\ (last.pre = "task" /\ last.op \in {"store", "delete"}) =>
           last.res \in {"Ok", "WalletLocked"}
    /\ ~partial
    /\ (/\ last.pre = "task"
        /\ \A t \in Tasks : tasks[t].pc = "idle"
        /\ dirty[1]) => walletFile = [exists |-> TRUE, entries |-> cache[1]]

\* C26: mutations of one integration that overlap take effect as if in some
\* serial order: once all of them have returned, the registry holds the slug
\* exactly when the entry integration:{slug} is stored, and holds the stored
\* value.
C26_RegistryMatchesStorage ==
    (/\ last.pre = "task"
     /\ storageKey[last.w] # NoKey
     /\ \A t \in Tasks : tasks[t].pc = "idle") =>
        \A slug \in Slugs :
            LET got == retrieve(cache[last.w], storageKey[last.w], IntegKey(slug))
            IN  IF registry[last.w][slug].present
                THEN got.res = "Some" /\ got.pt.integ = registry[last.w][slug]
                ELSE got.res = "None"

\* C27: once lock() has returned, no HTTP request that carries a decrypted
\* credential is sent, not even by a tool call that decrypted its credential
\* before the lock.
C27_NoRequestAfterLock ==
    [][(/\ last'.op = "execute" /\ last'.pre = "task"
        /\ last'.request.sent
        /\ last'.request.bearer # ""
        /\ ToolCallSend(last'.id)) => ~lockedSince[last'.w]]_vars

\* What a tool call may change in a set of entries: nothing but the entry
\* of a credential, and of that neither its presence nor its secret
same_but_last_used(before, after, k) ==
    \A ek \in EntryKeys :
        \/ after[ek] = before[ek]
        \/ /\ ek[1] = "credential:"
           /\ after[ek].present = before[ek].present
           /\ retrieve(after, k, ek).res = retrieve(before, k, ek).res
           /\ retrieve(after, k, ek).pt.enc = retrieve(before, k, ek).pt.enc

\* C30: a tool call, whether it succeeds, fails or is abandoned where it
\* waits, changes nothing cached or persistent but the last_used_at of the
\* credential bound to the integration: the wallet state, the keys, the
\* session file, every integration, and the secret of the credential stay as
\* they were.
C30_ToolCallFrame ==
    [][(/\ tasks' # tasks
        /\ \/ \E w \in W : ToolCallDecrypt(w, w, GetCall.tool_name,
                                           GetCall.arguments, "2xx")
           \/ \E t \in Tasks : ToolCallSend(t) \/ ToolCallAbandon(t)) =>
              /\ UNCHANGED <<saltFile, verifyFile, sessionFile, wstate, keys,
                             registry>>
              /\ \A w \in W : same_but_last_used(cache[w], cache'[w], storageKey[w])
              /\ walletFile'.exists = walletFile.exists
              /\ \A w \in W : storageKey[w] # NoKey =>
                     same_but_last_used(walletFile.entries, walletFile'.entries,
                                        storageKey[w])]_vars

\* C28: when update_value(id, new) overlaps get_decrypted(id), the stored
\* secret is that of new once both have returned: the last_used_at touch of
\* get_decrypted never writes an older secret back, that is, its store leaves
\* the secret of a credential that is stored as it is.
C28_TouchKeepsSecret ==
    [][\A t \in Tasks :
          (/\ tasks[t].pc = "store"
           /\ cache[tasks[t].w][CredKey(tasks[t].id)].present
           /\ TouchStore(t)) =>
              LET w == tasks[t].w
                  ek == CredKey(tasks[t].id)
              IN  retrieve(cache'[w], storageKey[w], ek).pt.enc
                      = retrieve(cache[w], storageKey[w], ek).pt.enc]_vars

\* C29: when delete(id) overlaps get_decrypted(id), the credential is absent
\* from the storage once both have returned: the last_used_at touch never
\* creates a credential that is not stored.
C29_TouchCreatesNothing ==
    [][\A t \in Tasks :
          (/\ tasks[t].pc = "store"
           /\ ~cache[tasks[t].w][CredKey(tasks[t].id)].present
           /\ TouchStore(t)) =>
              /\ ~cache'[tasks[t].w][CredKey(tasks[t].id)].present
              /\ walletFile' = walletFile]_vars

\* The first failing check of a tool call in the order resolve the name,
\* resolve the integration, resolve the operation, wallet unlocked, credential
\* bound; "" when none of the five fails.
first_failing_check(w, tool_name) ==
    LET parsed == parse_tool_name(tool_name)
        found == {slug \in Slugs : <<slug>> = parsed.integration_key /\ registry[w][slug].present}
    IN  IF ~parsed.ok THEN "OperationNotFound"
        ELSE IF found = {} THEN "IntegrationNotFound"
        ELSE LET stored == registry[w][CHOOSE slug \in found : TRUE]
             IN  IF \A ref \in stored.namespace : dotted(ref[1]) # parsed.operation_path
                 THEN "OperationNotFound"
                 ELSE IF wstate[w] # "Unlocked" THEN "WalletLocked"
                 ELSE IF stored.credential_id = 0 THEN "CredentialNotFound"
                 ELSE ""

\* C31: execute(tool_name, args) reports the first failing check in the order
\* name without '_' (OperationNotFound), unknown integration
\* (IntegrationNotFound), operation not in the namespace (OperationNotFound),
\* wallet not Unlocked (WalletLocked), no credential bound
\* (CredentialNotFound), and sends no HTTP request in any of these cases.
C31_FirstFailingCheck ==
    (/\ last.op \in Transports /\ is_request(last.msg)
     /\ last.msg.method = "tools/call" /\ last.msg.params.shape = "ok"
     /\ first_failing_check(last.w, last.msg.params.name) # "") =>
        /\ last.res = first_failing_check(last.w, last.msg.params.name)
        /\ ~last.request.sent

\* C32: the last_used_at touch is best-effort: once get_decrypted has found
\* the credential and decrypted its value, it returns Ok with the secret,
\* whatever happens to the read-back and the persisting of the touch.
C32_TouchIsBestEffort ==
    [][\A t \in Tasks :
          (/\ tasks[t].op = "get_decrypted"
           /\ tasks[t].pc \notin {"idle", "retrieve"}
           /\ tasks'[t].pc = "idle") =>
              /\ last'.op = "get_decrypted" /\ last'.id = t
              /\ last'.res = "Ok"]_vars

\* C33: for every integration key (keys with '_' included) and every
\* operation of the integration (operations with the same normalized id
\* included), the generated tool name given to the executor resolves to that
\* integration and that operation, and the listed names of different
\* operations are different.
C33_ToolNameRoundTrip ==
    /\ last.op = "tools/call" =>
           /\ last.ns.resolved.res = "Ok"
           /\ last.ns.resolved.integration_key = last.ns.key
           /\ last.ns.operations[last.ns.resolved.index]
                  = last.ns.operations[last.ns.call]
    /\ last.op \in {"tools/list", "tools/call"} =>
           \A i, j \in DOMAIN last.ns.names :
               last.ns.operations[i] # last.ns.operations[j] =>
                   last.ns.names[i] # last.ns.names[j]

\* C34: change_password with an incorrect old password returns
\* InvalidPassword and changes nothing: salt, verifier, wallet state and the
\* keys installed in storage, credential manager and facade are as before.
C34_WrongOldPasswordChangesNothing ==
    [][(/\ last'.op = "change_password" /\ last'.res = "InvalidPassword"
        /\ \E old \in Passwords, new \in Passwords :
               ChangePassword(last'.w, old, new)) =>
           UNCHANGED <<saltFile, verifyFile, wstate, keys>>]_vars

\* C35: set_status(slug, status) never panics: when it runs together with
\* remove(slug) it returns a result in every interleaving, also when the slug
\* is removed between the release of its write lock and its re-read of the
\* map.
C35_SetStatusNeverPanics ==
    last.op = "set_status" => last.res # "panic"

\* C36: no operation of the integration registry or of the credential
\* manager holds one of its own lock guards (the guard of the integrations
\* map, the guard of the manager's master key) where it awaits a storage
\* operation.
C36_NoGuardAcrossStorageAwait ==
    \A t \in Tasks : awaits_storage(t) => guards_held(t) = {}

\* C37: on stdio a line that is not a valid JSON-RPC message (text that is
\* not JSON, bytes that are not text) gets one error response with code
\* -32700 and a null id and does not stop the server; every valid request
\* read gets its response, written after the responses of the lines read
\* before it; the loop ends only at the end of input.
C37_StdioServesOn ==
    [][\A t \in Tasks :
          (tasks[t].op = "run" /\ tasks[t].pc = "read" /\ tasks'[t] # tasks[t]) =>
              LET line == last'.msg
                  text == last'.pre = ""
                  written == tasks'[t].out
              IN  /\ ((text /\ ~line.json) \/ last'.pre = "bytes") =>
                         /\ written = tasks[t].out \o <<error_response(NoId, -32700)>>
                         /\ tasks'[t].pc = "read"
                  /\ (text /\ line.json /\ is_request(line)
                           /\ line.method # "initialized") =>
                         /\ Len(written) = Len(tasks[t].out) + 1
                         /\ SubSeq(written, 1, Len(tasks[t].out)) = tasks[t].out
                         /\ written[Len(written)].id = line.id
                         /\ tasks'[t].pc = "read"
                  /\ tasks'[t].pc # "read" => last'.pre = "eof"]_vars

====
